---- MODULE Spec2Model ----
(***************************************************************************)
(* Model of the crowdfunding application's donation path and project      *)
(* aggregates (pages/models.py, pages/views.py, pages/projects.py,        *)
(* pages/project_services.py).                                            *)
(*                                                                         *)
(* Money is counted in pence (Decimal with two places): 1.00 is 100.      *)
(* The entity store is the relational database; every ORM call is one     *)
(* statement in autocommit mode, so a request is a sequence of atomic     *)
(* steps that other requests may interleave with.                         *)
(***************************************************************************)
EXTENDS Integers, Sequences, FiniteSets, TLC

(* ------------------------------------------------------------------ *)
(* Bounds of the model                                                  *)
(* ------------------------------------------------------------------ *)
\* the clock runs from 0 to MaxTime ticks
MaxTime == 2
\* ticks in one day: timedelta.days floors to whole days
DayLen == 2
\* rows of the donation table when the queries are studied
MaxRows == 2
\* like rows created before workers stop taking further toggles
MaxLikes == 2
\* projects created when the slugs are studied
MaxProjects == 3

\* the requests of a run; two of them may be in flight together
Req == {1, 2}
Users == {"u1", "u2"}
Anonymous == "anon"
ProjectIds == {1, 2}
\* amounts a client may post, in pence: 0.50, 25.00, 75.00
Amounts == {50, 2500, 7500}
\* the minimum donation, Decimal('1.00'), in pence
MinDonation == 100

VARIABLES
    projects,   \* table Projects: id -> row
    donations,  \* table Donation: sequence of rows, the index is the primary key
    comments,   \* table ProjectComment: sequence of rows
    likes,      \* table ProjectLike: set of rows
    likeSeq,    \* last primary key handed out by table ProjectLike
    now,        \* timezone.now(), in ticks
    req         \* the requests: position, arguments, in-memory objects, response

vars == <<projects, donations, comments, likes, likeSeq, now, req>>

(* ------------------------------------------------------------------ *)
(* Projects model: fields and derived properties                        *)
(* ------------------------------------------------------------------ *)
Max(a, b) == IF a >= b THEN a ELSE b
Min(a, b) == IF a <= b THEN a ELSE b

RECURSIVE Gcd(_, _)
Gcd(a, b) == IF b = 0 THEN a ELSE Gcd(b, a % b)

\* an exact rational n/d (d > 0, n >= 0) in lowest terms
Rat(n, d) == LET g == Gcd(n, d) IN <<n \div g, d \div g>>
RatLeq(x, y) == x[1] * y[2] <= y[1] * x[2]

\* creator, target and texts of the projects of the model; the later
\* project is the newer one
CreatorOf(p) == IF p = 1 THEN "u1" ELSE "u2"
TargetOf(p) == IF p = 1 THEN 10000 ELSE 100
CategoryOf(p) == IF p = 1 THEN <<"k", "a">> ELSE <<"k", "b">>
TitleOf(p) == IF p = 1 THEN <<"A", "b">> ELSE <<"b", "c">>
DescriptionOf(p) == IF p = 1 THEN <<"c", "d">> ELSE <<"x", "a", "B">>

\* the rows a project may be created with: status and end_date vary
NewProject(p, st, end) ==
    [id |-> p, status |-> st, creator |-> CreatorOf(p),
     target_amount |-> TargetOf(p), donation_amount |-> 0,
     donors |-> 0, views_count |-> 0, created_at |-> p - 3,
     end_date |-> end, category |-> CategoryOf(p)]

\* an in-memory Projects instance that has not been loaded
NoProject == NewProject(0, "draft", 0)

\* Projects.funded_percentage: min(raised / target * 100, 100), else 0.
\* The Decimal quotient carries 28 significant digits, exact for the
\* comparisons made here (amounts have at most 10 digits).
funded_percentage(o) ==
    IF o.target_amount > 0
    THEN LET q == Rat(o.donation_amount * 100, o.target_amount)
         IN IF RatLeq(q, Rat(100, 1)) THEN q ELSE Rat(100, 1)
    ELSE Rat(0, 1)

\* Projects.remaining_amount
remaining_amount_nofloor(o) == o.target_amount - o.donation_amount

remaining_amount(o) == Max(o.target_amount - o.donation_amount, 0)

\* Projects.days_left at time t: whole days until end_date, 0 once passed
days_left(o, t) ==
    IF o.end_date > t THEN (o.end_date - t) \div DayLen ELSE 0

\* Projects.is_funded
is_funded_strict(o) == o.donation_amount > o.target_amount

is_funded(o) == o.donation_amount >= o.target_amount

(* ------------------------------------------------------------------ *)
(* Text matching and the AJAX search rows                               *)
(* ------------------------------------------------------------------ *)
\* case folding of the characters used in the model
Lower(c) == IF c = "A" THEN "a" ELSE IF c = "B" THEN "b"
            ELSE IF c = "C" THEN "c" ELSE c
LowerSeq(s) == [i \in 1..Len(s) |-> Lower(s[i])]

Contains(h, n) ==
    \E i \in 0..(Len(h) - Len(n)) : SubSeq(h, i + 1, i + Len(n)) = n

\* the __icontains lookup
icontains(h, n) == Contains(LowerSeq(h), LowerSeq(n))

\* str.strip()
RECURSIVE strip(_)
strip(s) ==
    IF s = <<>> THEN s
    ELSE IF Head(s) = " " THEN strip(Tail(s))
    ELSE IF s[Len(s)] = " " THEN strip(SubSeq(s, 1, Len(s) - 1))
    ELSE s

\* queries a client may send
Queries == {<<"a", "b">>, <<"B", "C">>, <<"a">>, <<" ", "b", "c">>}

\* ids in the default ordering of Projects.Meta: '-created_at'
NewestFirst(rows, ids) ==
    CHOOSE s \in [1..Cardinality(ids) -> ids] :
        /\ \A p \in ids : \E i \in DOMAIN s : s[i] = p
        /\ \A i, j \in DOMAIN s :
               i < j => rows[s[i]].created_at >= rows[s[j]].created_at

Take(s, n) == SubSeq(s, 1, Min(n, Len(s)))

\* round(x, 1) of the Decimal n/d, in tenths: ROUND_HALF_EVEN
round1(n, d) ==
    LET q == (n * 10) \div d
        m == (n * 10) % d
    IN IF 2 * m < d THEN q
       ELSE IF 2 * m > d THEN q + 1
       ELSE IF q % 2 = 0 THEN q ELSE q + 1

\* query length below which the AJAX search answers with no projects
MinQueryLen == 2
\* slice of views.search_projects
ViewsSearchLimit == 5
\* slice of ProjectsViews.search_projects_ajax
AjaxSearchLimit == 8

(* ------------------------------------------------------------------ *)
(* Querysets: filters, annotations and orderings                        *)
(* ------------------------------------------------------------------ *)
\* table Categories: the names
CategoryNames == {<<"k", "a">>, <<"k", "b">>}

\* further text fields: Projects.about_project, User.first_name / last_name
AboutOf(p) == IF p = 1 THEN <<"e">> ELSE <<"e", "x">>
FirstNameOf(u) == IF u = "u1" THEN <<"J", "o">> ELSE <<"S", "u">>
LastNameOf(u) == IF u = "u1" THEN <<"L", "i">> ELSE <<"R", "e">>

\* the windows of the queries, in days
TrendingDays == 7
EndingSoonDays == 7
JustStartedDays == 7
LongRunningDays == 30
\* the slices of the queries
FeaturedLimit == 6
TrendingLimit == 6
SimilarLimit == 4
AutocompleteLimit == 5
AutocompleteCategories == 3
IndexLimit == 3
TopCategories == 3
PerCategory == 2
\* Paginator page sizes
ViewsPerPage == 9
PvPerPage == 12

\* a filters dict / the GET parameters; an absent key reads as "" or 0
NoFilters ==
    [query |-> <<>>, category |-> <<>>, min_amount |-> 0, max_amount |-> 0,
     status |-> "", sort |-> "", min_price |-> 0, max_price |-> 0,
     funding_status |-> "", time_filter |-> ""]

\* filter(status='active')
ActiveIds_all == ProjectIds

ActiveIds == {p \in DOMAIN projects : projects[p].status = "active"}

\* projects of the category with the given name
InCategory(p, name) == projects[p].category = name

\* primary keys of the donation, comment and like rows of project p
DonationsOf(p) == {i \in 1..Len(donations) : donations[i].project = p}
CommentsOf(p) == {i \in 1..Len(comments) : comments[i].project = p}
LikesOf(p) == {l.id : l \in {x \in likes : x.project = p}}
LikeById(i) == CHOOSE l \in likes : l.id = i

\* all orders of the ids
Perms(ids) ==
    {s \in [1..Cardinality(ids) -> ids] :
        \A p \in ids : \E i \in DOMAIN s : s[i] = p}

\* order_by with one key: the sequences a database may answer, rows with
\* equal keys in any order (K maps a row to its key, smaller first)
Orderings(ids, K) ==
    {s \in Perms(ids) : \A i, j \in DOMAIN s : i < j => K[s[i]] <= K[s[j]]}

\* order_by with two keys
Orderings2(ids, K1, K2) ==
    {s \in Perms(ids) :
        \A i, j \in DOMAIN s :
            i < j => \/ K1[s[i]] < K1[s[j]]
                     \/ K1[s[i]] = K1[s[j]] /\ K2[s[i]] <= K2[s[j]]}

\* the rows of s that are in keep, in the order of s
Restrict(s, keep) == SelectSeq(s, LAMBDA p : p \in keep)

\* code points of the characters of the titles
Code(c) ==
    IF c = "A" THEN 65 ELSE IF c = "B" THEN 66 ELSE IF c = "C" THEN 67
    ELSE IF c = "a" THEN 97 ELSE IF c = "b" THEN 98 ELSE IF c = "c" THEN 99
    ELSE 120

RECURSIVE StrLess(_, _)
StrLess(a, b) ==
    IF b = <<>> THEN FALSE
    ELSE IF a = <<>> THEN TRUE
    ELSE IF Code(Head(a)) # Code(Head(b)) THEN Code(Head(a)) < Code(Head(b))
    ELSE StrLess(Tail(a), Tail(b))

\* position of the title of p among the titles
TitleRank(p) ==
    Cardinality({q \in ProjectIds : StrLess(TitleOf(q), TitleOf(p))})

\* the key of an order_by argument on Projects, smaller first
OrderKey_nosign(ob, p) ==
    IF ob = "-created_at" THEN 0 - projects[p].created_at
    ELSE IF ob = "created_at" THEN projects[p].created_at
    ELSE IF ob = "-donation_amount" THEN 0 - projects[p].donation_amount
    ELSE IF ob = "donation_amount" THEN 0 - projects[p].donation_amount
    ELSE IF ob = "end_date" THEN projects[p].end_date
    ELSE IF ob = "-views_count" THEN 0 - projects[p].views_count
    ELSE TitleRank(p)

OrderKey(ob, p) ==
    IF ob = "-created_at" THEN 0 - projects[p].created_at
    ELSE IF ob = "created_at" THEN projects[p].created_at
    ELSE IF ob = "-donation_amount" THEN 0 - projects[p].donation_amount
    ELSE IF ob = "donation_amount" THEN projects[p].donation_amount
    ELSE IF ob = "end_date" THEN projects[p].end_date
    ELSE IF ob = "-views_count" THEN 0 - projects[p].views_count
    ELSE TitleRank(p)

\* the keys of all rows under an order_by argument
KeyOf(ob) == [p \in DOMAIN projects |-> OrderKey(ob, p)]

\* filters.get('sort', 'newest')
SortBy(f) == IF f.sort = "" THEN "newest" ELSE f.sort

\* sort_options.get(sort_by, '-created_at') of search_projects
sort_options_oldest(s) ==
    IF s = "newest" THEN "-created_at"
    ELSE IF s = "oldest" THEN "created_at"
    ELSE IF s = "most_funded" THEN "-donation_amount"
    ELSE IF s = "least_funded" THEN "donation_amount"
    ELSE IF s = "ending_soon" THEN "end_date"
    ELSE IF s = "most_popular" THEN "-views_count"
    ELSE IF s = "alphabetical" THEN "title"
    ELSE IF s = "relevance" THEN "-score"
    ELSE "created_at"

sort_options(s) ==
    IF s = "newest" THEN "-created_at"
    ELSE IF s = "oldest" THEN "created_at"
    ELSE IF s = "most_funded" THEN "-donation_amount"
    ELSE IF s = "least_funded" THEN "donation_amount"
    ELSE IF s = "ending_soon" THEN "end_date"
    ELSE IF s = "most_popular" THEN "-views_count"
    ELSE IF s = "alphabetical" THEN "title"
    ELSE IF s = "relevance" THEN "-score"
    ELSE "-created_at"

\* the text search of search_projects over six fields
TextMatch(p, q) ==
    \/ icontains(TitleOf(p), q)
    \/ icontains(DescriptionOf(p), q)
    \/ icontains(AboutOf(p), q)
    \/ icontains(projects[p].category, q)
    \/ icontains(FirstNameOf(projects[p].creator), q)
    \/ icontains(LastNameOf(projects[p].creator), q)

\* the relevance annotation of search_projects
RelevanceScore(p, q) ==
    (IF icontains(TitleOf(p), q) THEN 3 ELSE 0)
    + (IF icontains(DescriptionOf(p), q) THEN 2 ELSE 0)
    + (IF icontains(projects[p].category, q) THEN 1 ELSE 0)

\* end_date__lte=now + 7 days, end_date__gt=now
EndingSoon(p) ==
    /\ projects[p].end_date <= now + EndingSoonDays * DayLen
    /\ projects[p].end_date > now

\* the rows search_projects keeps
SearchIds(q, f) ==
    {p \in ActiveIds :
        /\ q # <<>> => TextMatch(p, q)
        /\ f.category # <<>> => InCategory(p, f.category)
        /\ f.min_amount # 0 => projects[p].target_amount >= f.min_amount
        /\ f.max_amount # 0 => projects[p].target_amount <= f.max_amount
        /\ f.status = "funded" =>
               projects[p].donation_amount >= projects[p].target_amount
        /\ f.status = "active" => projects[p].end_date > now
        /\ f.status = "ending_soon" => EndingSoon(p)}

\* ProjectsService.search_projects: the outcome and the sequences the
\* queryset may evaluate to; order_by('-score') without the annotation is a
\* FieldError
search_projects(q, f) ==
    LET ob == sort_options(SortBy(f)) IN
    IF ob = "-score"
    THEN IF SortBy(f) = "relevance" /\ q # <<>>
         THEN [result |-> "ok",
               seqs |-> Orderings(SearchIds(q, f),
                                  [p \in ProjectIds |-> 0 - RelevanceScore(p, q)])]
         ELSE [result |-> "FieldError", seqs |-> {<<>>}]
    ELSE [result |-> "ok",
          seqs |-> Orderings(SearchIds(q, f), KeyOf(ob))]

\* targets of the model, in pence, for which the binary floating-point
\* product target * 0.8 is greater than 80% of the target:
\* 3.00 * 0.8 = 2.4000000000000004, while 1.00 * 0.8 = 0.8 and
\* 100.00 * 0.8 = 80.0
InexactTargets == {300}

\* donation_amount >= F('target_amount') * 0.8: the factor is a float, and
\* the product is computed by the database, in decimal arithmetic (exact)
\* or in binary floating point, depending on the backend and its driver
AtLeastEightTenths(o, exact) ==
    \/ 10 * o.donation_amount > 8 * o.target_amount
    \/ /\ 10 * o.donation_amount = 8 * o.target_amount
       /\ exact \/ o.target_amount \notin InexactTargets

\* the rows the filters of advanced_search itself keep
AdvancedIds(f, exact) ==
    {p \in ProjectIds :
        /\ f.min_price # 0 => projects[p].target_amount >= f.min_price
        /\ f.max_price # 0 => projects[p].target_amount <= f.max_price
        /\ f.funding_status = "not_funded" =>
               projects[p].donation_amount < projects[p].target_amount
        /\ f.funding_status = "funded" =>
               projects[p].donation_amount >= projects[p].target_amount
        /\ f.funding_status = "nearly_funded" =>
               /\ AtLeastEightTenths(projects[p], exact)
               /\ projects[p].donation_amount < projects[p].target_amount
        /\ f.time_filter = "ending_soon" => EndingSoon(p)
        /\ f.time_filter = "just_started" =>
               projects[p].created_at >= now - JustStartedDays * DayLen
        /\ f.time_filter = "long_running" =>
               projects[p].created_at <= now - LongRunningDays * DayLen}

\* ProjectSearchService.advanced_search: search_projects is called, with the
\* same dict, only when the dict has a query
advanced_search(f) ==
    LET base == IF f.query # <<>>
                THEN search_projects(f.query, f)
                ELSE [result |-> "ok",
                      seqs |-> Orderings(ActiveIds,
                                  KeyOf("-created_at"))]
    IN [result |-> base.result,
        seqs |-> IF base.result = "ok"
                 THEN {Restrict(s, AdvancedIds(f, x)) :
                          s \in base.seqs, x \in BOOLEAN}
                 ELSE {<<>>}]

\* rows of the LEFT OUTER JOINs of project p with its donations, comments
\* and likes: one row per combination, 0 standing for NULL
JoinSide(keys) == IF keys = {} THEN {0} ELSE keys
JoinRows(p) ==
    JoinSide(DonationsOf(p)) \X JoinSide(CommentsOf(p)) \X JoinSide(LikesOf(p))

\* timezone.now() - timedelta(days=7)
Cutoff == now - TrendingDays * DayLen

\* Count(..., filter=Q(...__created_at__gte=cutoff_date)), without
\* distinct=True: one for each joined row whose record is recent
recent_donations(p) ==
    Cardinality({t \in JoinRows(p) :
        t[1] # 0 /\ donations[t[1]].created_at >= Cutoff})
recent_comments(p) ==
    Cardinality({t \in JoinRows(p) :
        t[2] # 0 /\ comments[t[2]].created_at >= Cutoff})
recent_likes(p) ==
    Cardinality({t \in JoinRows(p) :
        t[3] # 0 /\ LikeById(t[3]).created_at >= Cutoff})

trending_score(p) ==
    recent_donations(p) * 3 + recent_comments(p) * 2 + recent_likes(p)

\* ProjectsService.get_trending_projects(limit=n): the annotated rows
get_trending_projects(n) ==
    {[i \in 1..Len(t) |-> [id |-> t[i], trending_score |-> trending_score(t[i])]] :
        t \in {Take(s, n) :
                 s \in Orderings({p \in ActiveIds : trending_score(p) > 0},
                                 [p \in ProjectIds |-> 0 - trending_score(p)])}}

\* Count('donations') + Count('likes') of get_similar_projects, over the
\* join of the project with its donations and its likes
similarity_score(p) ==
    LET rows == JoinSide(DonationsOf(p)) \X JoinSide(LikesOf(p))
    IN Cardinality({t \in rows : t[1] # 0})
       + Cardinality({t \in rows : t[2] # 0})

\* ProjectsService.get_similar_projects(project)
get_similar_projects_anystatus(o) ==
    {Take(s, SimilarLimit) :
        s \in Orderings2({p \in ProjectIds :
                              p # o.id /\ InCategory(p, o.category)},
                         [p \in ProjectIds |-> 0 - similarity_score(p)],
                         [p \in ProjectIds |-> 0 - projects[p].donation_amount])}

get_similar_projects(o) ==
    {Take(s, SimilarLimit) :
        s \in Orderings2({p \in ActiveIds :
                              p # o.id /\ InCategory(p, o.category)},
                         [p \in ProjectIds |-> 0 - similarity_score(p)],
                         [p \in ProjectIds |-> 0 - projects[p].donation_amount])}

\* the score of get_featured_projects, times 1000 (amounts are in pence)
featured_score(p) ==
    projects[p].donation_amount * 7 + projects[p].views_count * 200
    + projects[p].donors * 100

\* ProjectsService.get_featured_projects()
get_featured_projects ==
    {Take(s, FeaturedLimit) :
        s \in Orderings2(ActiveIds,
                         [p \in ProjectIds |-> 0 - featured_score(p)],
                         [p \in ProjectIds |-> 0 - projects[p].created_at])}

\* position of a category name in Categories.Meta.ordering
NameRank(n) == Cardinality({m \in CategoryNames : StrLess(m, n)})

\* ProjectSearchService.autocomplete_search(query): project suggestions,
\* then category suggestions
autocomplete_search(q) ==
    IF Len(q) < MinQueryLen THEN {<<>>}
    ELSE {[i \in 1..Len(ps) |->
              [type |-> "project", slug |-> ps[i], name |-> <<>>]]
          \o [i \in 1..Len(cs) |->
              [type |-> "category", slug |-> 0, name |-> cs[i]]] :
            ps \in {Take(s, AutocompleteLimit) :
                      s \in Orderings(
                          {p \in ActiveIds :
                              \/ icontains(TitleOf(p), q)
                              \/ icontains(DescriptionOf(p), q)},
                          KeyOf("-created_at"))},
            cs \in {Take(s, AutocompleteCategories) :
                      s \in Orderings(
                          {n \in CategoryNames : icontains(n, q)},
                          [n \in CategoryNames |-> NameRank(n)])}}

\* categories of the projects user u donated to, and Count of the donations
UserCategories(u) ==
    {projects[donations[i].project].category :
        i \in {j \in 1..Len(donations) : donations[j].donor = u}}
donation_count(u, c) ==
    Cardinality({i \in 1..Len(donations) :
        /\ donations[i].donor = u
        /\ projects[donations[i].project].category = c})

NotBacked_any(c, u) == {p \in ActiveIds : InCategory(p, c)}

\* active projects of category c that user u has not donated to
NotBacked(c, u) ==
    {p \in ActiveIds :
        /\ InCategory(p, c)
        /\ \A i \in DonationsOf(p) : donations[i].donor # u}

\* the recommendations list after the loop over the categories cs
RECURSIVE AffinityLists(_, _)
AffinityLists(cs, u) ==
    IF cs = <<>> THEN {<<>>}
    ELSE {Take(s, PerCategory) \o t :
            s \in Orderings(NotBacked(Head(cs), u),
                            KeyOf("-donation_amount")),
            t \in AffinityLists(Tail(cs), u)}

\* ProjectRecommendationService.get_recommendations_for_user(user, limit):
\* when the list is shorter than limit, .exclude() is called on the sliced
\* queryset of get_trending_projects, which Django refuses
get_recommendations_for_user(u, n) ==
    {IF Len(s) < n
     THEN [result |-> "TypeError", body |-> <<>>]
     ELSE [result |-> "ok", body |-> Take(s, n)] :
        s \in UNION {AffinityLists(Take(co, TopCategories), u) :
                        co \in Orderings(UserCategories(u),
                                         [c \in UserCategories(u) |->
                                             0 - donation_count(u, c)])}}

\* ProjectRecommendationService.get_similar_projects_collaborative(project,
\* limit): the first statement reads the name User, which the module
\* project_services neither imports nor defines
get_similar_projects_collaborative(o, n) ==
    [result |-> "NameError", body |-> <<>>]

\* the value 'all' of the category parameter of the list views
AllCategories == <<"a", "l", "l">>

\* views.projects: search, category filter, sort, first page
views_projects(f) ==
    LET ids == {p \in ActiveIds :
                   /\ f.query # <<>> =>
                          \/ icontains(TitleOf(p), f.query)
                          \/ icontains(DescriptionOf(p), f.query)
                   /\ (f.category # <<>> /\ f.category # AllCategories) =>
                          InCategory(p, f.category)}
        ob == IF SortBy(f) = "oldest" THEN "created_at"
              ELSE IF SortBy(f) = "most_funded" THEN "-donation_amount"
              ELSE IF SortBy(f) = "least_funded" THEN "donation_amount"
              ELSE IF SortBy(f) = "ending_soon" THEN "end_date"
              ELSE "-created_at"
    IN {[result |-> "ok", body |-> Take(s, ViewsPerPage)] :
           s \in Orderings(ids, KeyOf(ob))}

\* the sort_options of ProjectsViews.projects_list
PvSortKeys ==
    {"newest", "oldest", "most_funded", "least_funded", "ending_soon",
     "most_popular", "alphabetical"}

\* ProjectsViews.projects_list: models.F is an unbound name (models is not
\* imported in projects.py), so status=funded ends in a NameError
projects_list(f) ==
    LET q == strip(f.query)
        ids == {p \in ActiveIds :
                   /\ q # <<>> =>
                          \/ icontains(TitleOf(p), q)
                          \/ icontains(DescriptionOf(p), q)
                          \/ icontains(AboutOf(p), q)
                          \/ icontains(projects[p].category, q)
                   /\ (f.category # <<>> /\ f.category # AllCategories
                          /\ f.category \in CategoryNames) =>
                          InCategory(p, f.category)
                   /\ f.status = "ending_soon" => EndingSoon(p)
                   /\ f.min_price # 0 =>
                          projects[p].target_amount >= f.min_price
                   /\ f.max_price # 0 =>
                          projects[p].target_amount <= f.max_price}
        ob == IF SortBy(f) \in PvSortKeys THEN sort_options(SortBy(f))
              ELSE "-created_at"
    IN IF f.status = "funded"
       THEN {[result |-> "NameError", body |-> <<>>]}
       ELSE {[result |-> "ok", body |-> Take(s, PvPerPage)] :
               s \in Orderings(ids, KeyOf(ob))}

\* views.projects_by_category: get_object_or_404, then Meta.ordering
views_by_category(name) ==
    IF name \notin CategoryNames
    THEN {[result |-> "Http404", body |-> <<>>]}
    ELSE {[result |-> "ok", body |-> Take(s, ViewsPerPage)] :
            s \in Orderings({p \in ActiveIds : InCategory(p, name)},
                            KeyOf("-created_at"))}

\* ProjectsViews.projects_by_category
pv_by_category(name, sort) ==
    LET ob == IF sort = "most_funded" THEN "-donation_amount"
              ELSE IF sort = "ending_soon" THEN "end_date"
              ELSE "-created_at"
    IN IF name \notin CategoryNames
       THEN {[result |-> "Http404", body |-> <<>>]}
       ELSE {[result |-> "ok", body |-> Take(s, PvPerPage)] :
               s \in Orderings({p \in ActiveIds : InCategory(p, name)},
                               KeyOf(ob))}

\* views.index: the three newest active projects
index ==
    {Take(s, IndexLimit) :
        s \in Orderings(ActiveIds, KeyOf("-created_at"))}

\* the arguments of a query request
Args(q, f, n) == [query |-> q, filters |-> f, limit |-> n]

(* ------------------------------------------------------------------ *)
(* Requests                                                             *)
(* ------------------------------------------------------------------ *)
\* started is the time at which a donation request checked the project
IdleReq ==
    [pc |-> "idle", kind |-> "none", user |-> Anonymous, project |-> 0,
     amount |-> 0, obj |-> NoProject, pk |-> 0, started |-> 0,
     result |-> "none", goal_reached |-> FALSE, body |-> <<>>,
     args |-> Args(<<>>, NoFilters, 0)]

\* request slots are taken in order
Free(r) ==
    /\ req[r].pc = "idle"
    /\ \A q \in Req : q < r => req[q].pc # "idle"

Begin(r, k, u, p, a) ==
    [req[r] EXCEPT !.kind = k, !.user = u, !.project = p, !.amount = a]

\* the response is out; the view's in-memory project object is dropped
Finish(rec, res) ==
    [rec EXCEPT !.pc = "done", !.result = res, !.obj = NoProject]

\* process_donation returns to its caller, who still holds the project object
Return(rec, res) == [rec EXCEPT !.pc = "done", !.result = res]

\* DonationForm.is_valid: the amount field carries MinValueValidator(1.00)
\* and clean_amount rejects a non-zero amount below 1.00
DonationFormValid(a) == a >= MinDonation /\ ~(a # 0 /\ a < MinDonation)

(* ------------------------------------------------------------------ *)
(* Initial state                                                        *)
(* ------------------------------------------------------------------ *)
\* campaign end times of the projects, in ticks
EndDates == {1, 3}

\* project 1 is active and ends early or late; project 2 ends late and is
\* active or completed
Init ==
    /\ \E st \in {"active", "completed"}, en \in EndDates :
           projects = [p \in ProjectIds |->
                          IF p = 1 THEN NewProject(p, "active", en)
                          ELSE NewProject(p, st, 3)]
    /\ donations = <<>>
    /\ comments = <<>>
    /\ likes = {}
    /\ likeSeq = 0
    /\ now = 0
    /\ req = [r \in Req |-> IdleReq]

(* ------------------------------------------------------------------ *)
(* Donation.save, in its three statements                               *)
(* ------------------------------------------------------------------ *)
\* super().save(): INSERT of the row; then the in-memory += amount
SaveInsert(r) ==
    /\ req[r].pc = "insert"
    /\ donations' = Append(donations,
           [project |-> req[r].project, donor |-> req[r].user,
            amount |-> req[r].amount, created_at |-> now, request |-> r])
    /\ req' = [req EXCEPT ![r].pk = Len(donations) + 1,
                          ![r].obj.donation_amount = @ + req[r].amount,
                          ![r].pc = "exists"]
    /\ UNCHANGED <<projects, comments, likes, likeSeq, now>>

\* Donation.objects.filter(project, donor).exclude(pk=self.pk).exists()
OtherDonationExists(rows, p, u, pk) ==
    \E i \in 1..Len(rows) :
        i # pk /\ rows[i].project = p /\ rows[i].donor = u

SaveExists(r) ==
    /\ req[r].pc = "exists"
    /\ req' = [req EXCEPT
           ![r].obj.donors =
               IF OtherDonationExists(donations, req[r].project,
                                      req[r].user, req[r].pk)
               THEN @ ELSE @ + 1,
           ![r].pc = "update"]
    /\ UNCHANGED <<projects, donations, comments, likes, likeSeq, now>>

\* self.project.save(update_fields=['donation_amount', 'donors'])
SaveUpdate(r) ==
    /\ req[r].pc = "update"
    /\ projects' = [projects EXCEPT
           ![req[r].project].donation_amount = req[r].obj.donation_amount,
           ![req[r].project].donors = req[r].obj.donors]
    /\ req' = [req EXCEPT ![r] =
           IF req[r].kind = "process_donation"
           THEN [req[r] EXCEPT !.pc = "refresh"]
           ELSE Finish(req[r], "ok")]
    /\ UNCHANGED <<donations, comments, likes, likeSeq, now>>

(* ------------------------------------------------------------------ *)
(* The donation entry points                                            *)
(* ------------------------------------------------------------------ *)
\* views.donate_to_project up to donation.save()
ViewsDonate(r, u, p, a) ==
    /\ Free(r)
    /\ LET b == [Begin(r, "views.donate_to_project", u, p, a)
                   EXCEPT !.started = now] IN
       req' = [req EXCEPT ![r] =
           IF projects[p].status # "active" THEN Finish(b, "Http404")
           ELSE IF ~DonationFormValid(a) THEN Finish(b, "form_error")
           ELSE [b EXCEPT !.obj = projects[p], !.pc = "insert"]]
    /\ UNCHANGED <<projects, donations, comments, likes, likeSeq, now>>

\* ProjectsViews.donate_to_project up to donation.save()
PvDonate(r, u, p, a) ==
    /\ Free(r)
    /\ LET b == [Begin(r, "ProjectsViews.donate_to_project", u, p, a)
                   EXCEPT !.started = now] IN
       req' = [req EXCEPT ![r] =
           IF projects[p].status # "active" THEN Finish(b, "Http404")
           ELSE IF days_left(projects[p], now) <= 0
                THEN Finish(b, "campaign_ended")
           ELSE IF ~DonationFormValid(a) THEN Finish(b, "form_error")
           ELSE [b EXCEPT !.obj = projects[p], !.pc = "insert"]]
    /\ UNCHANGED <<projects, donations, comments, likes, likeSeq, now>>

\* the caller of ProjectsService.process_donation obtains the project object
ServiceLoad(r, u, p, a) ==
    /\ Free(r)
    /\ req' = [req EXCEPT ![r] =
           [Begin(r, "process_donation", u, p, a) EXCEPT
               !.obj = projects[p], !.pc = "check"]]
    /\ UNCHANGED <<projects, donations, comments, likes, likeSeq, now>>

\* the validation checks of process_donation, in the order of the code
process_donation_error_nostatus(o, a, t) ==
    IF days_left(o, t) <= 0 THEN "ValueError"
    ELSE IF a < MinDonation THEN "ValueError"
    ELSE "none"

process_donation_error(o, a, t) ==
    IF days_left(o, t) <= 0 THEN "ValueError"
    ELSE IF a < MinDonation THEN "ValueError"
    ELSE IF o.status # "active" THEN "ValueError"
    ELSE "none"

ServiceCheck(r) ==
    /\ req[r].pc = "check"
    /\ LET err == process_donation_error(req[r].obj, req[r].amount, now) IN
       req' = [req EXCEPT ![r] =
           IF err # "none" THEN Return(req[r], err)
           ELSE [req[r] EXCEPT !.pc = "insert", !.started = now]]
    /\ UNCHANGED <<projects, donations, comments, likes, likeSeq, now>>

\* DonationService.check_donation_eligibility: the errors it collects.
\* No view and no service calls it.
check_donation_eligibility(o, u, t) ==
    (IF o.creator = u THEN {"You cannot donate to your own project"} ELSE {})
    \cup (IF days_left(o, t) <= 0
          THEN {"This project's campaign has ended"} ELSE {})
    \cup (IF o.status # "active"
          THEN {"This project is not currently accepting donations"}
          ELSE {})

\* project.refresh_from_db(); goal_reached; return
ServiceRefresh(r) ==
    /\ req[r].pc = "refresh"
    /\ LET o == projects[req[r].project] IN
       req' = [req EXCEPT ![r] =
           [Return(req[r], "ok") EXCEPT
               !.obj = o,
               !.goal_reached = (o.donation_amount >= o.target_amount)]]
    /\ UNCHANGED <<projects, donations, comments, likes, likeSeq, now>>

(* ------------------------------------------------------------------ *)
(* Detail page, comments, likes                                         *)
(* ------------------------------------------------------------------ *)
\* views.project_detail: get_object_or_404
ViewsDetailLoad(r, u, p) ==
    /\ Free(r)
    /\ req' = [req EXCEPT ![r] =
           [Begin(r, "views.project_detail", u, p, 0) EXCEPT
               !.obj = projects[p], !.pc = "view_save"]]
    /\ UNCHANGED <<projects, donations, comments, likes, likeSeq, now>>

\* views.project_detail: views_count += 1; save(update_fields=['views_count'])
ViewsDetailSave_allfields(r) ==
    /\ req[r].pc = "view_save"
    /\ projects' = [projects EXCEPT
           ![req[r].project] =
               [req[r].obj EXCEPT !.views_count = @ + 1]]
    /\ req' = [req EXCEPT ![r] =
           Finish(req[r], "ok")]
    /\ UNCHANGED <<donations, comments, likes, likeSeq, now>>

ViewsDetailSave(r) ==
    /\ req[r].pc = "view_save"
    /\ projects' = [projects EXCEPT
           ![req[r].project].views_count = req[r].obj.views_count + 1]
    /\ req' = [req EXCEPT ![r] =
           Finish(req[r], "ok")]
    /\ UNCHANGED <<donations, comments, likes, likeSeq, now>>

\* ProjectsViews.project_detail: unless the viewer is the creator,
\* update(views_count=models.F('views_count') + 1) is evaluated; the module
\* projects binds no name models, so the argument raises NameError before
\* any statement is sent and the view ends with an error
PvDetail(r, u, p) ==
    /\ Free(r)
    /\ req' = [req EXCEPT ![r] =
           Finish(Begin(r, "ProjectsViews.project_detail", u, p, 0),
                  IF u # projects[p].creator THEN "NameError" ELSE "ok")]
    /\ UNCHANGED <<projects, donations, comments, likes, likeSeq, now>>

\* add_comment (views and ProjectsViews are the same): a valid form
\* inserts one comment row, an invalid one inserts nothing
AddComment(r, u, p, valid) ==
    /\ Free(r)
    /\ comments' = IF valid
                   THEN Append(comments,
                            [project |-> p, user |-> u, created_at |-> now])
                   ELSE comments
    /\ req' = [req EXCEPT ![r] =
           Finish(Begin(r, "add_comment", u, p, 0),
                  IF valid THEN "ok" ELSE "form_error")]
    /\ UNCHANGED <<projects, donations, likes, likeSeq, now>>

LikeRows(p, u) == {l \in likes : l.project = p /\ l.user = u}

\* toggle_like: the SELECT of get_or_create
LikeGet(r, u, p) ==
    /\ Free(r)
    /\ LET b == Begin(r, "toggle_like", u, p, 0) IN
       req' = [req EXCEPT ![r] =
           IF LikeRows(p, u) # {}
           THEN [b EXCEPT !.pk = (CHOOSE l \in LikeRows(p, u) : TRUE).id,
                          !.pc = "like_delete"]
           ELSE [b EXCEPT !.pc = "like_create"]]
    /\ UNCHANGED <<projects, donations, comments, likes, likeSeq, now>>

\* toggle_like: the INSERT of get_or_create; unique_together makes a second
\* row an IntegrityError, after which get_or_create returns the existing row
LikeCreate(r) ==
    /\ req[r].pc = "like_create"
    /\ LET rows == LikeRows(req[r].project, req[r].user) IN
       IF rows # {}
       THEN /\ req' = [req EXCEPT
                   ![r].pk = (CHOOSE l \in rows : TRUE).id,
                   ![r].pc = "like_delete"]
            /\ UNCHANGED <<likes, likeSeq>>
       ELSE /\ likes' = likes \cup
                   {[id |-> likeSeq + 1, project |-> req[r].project,
                     user |-> req[r].user, created_at |-> now]}
            /\ likeSeq' = likeSeq + 1
            /\ req' = [req EXCEPT ![r] =
                   [Finish(req[r], "liked") EXCEPT !.pk = likeSeq + 1]]
    /\ UNCHANGED <<projects, donations, comments, now>>

\* toggle_like: like.delete() of the row that was found
LikeDelete(r) ==
    /\ req[r].pc = "like_delete"
    /\ likes' = {l \in likes : l.id # req[r].pk}
    /\ req' = [req EXCEPT ![r] = Finish(req[r], "unliked")]
    /\ UNCHANGED <<projects, donations, comments, likeSeq, now>>

\* the JsonResponse of toggle_like has been sent: the worker that served it
\* takes the next request (at most MaxLikes like rows are ever created)
Recycle(r) ==
    /\ req[r].pc = "done"
    /\ req[r].kind = "toggle_like"
    /\ likeSeq < MaxLikes
    /\ req' = [req EXCEPT ![r] = IdleReq]
    /\ UNCHANGED <<projects, donations, comments, likes, likeSeq, now>>

\* filter(Q(title__icontains) | Q(description__icontains), status='active')
SearchMatches(q) ==
    NewestFirst(projects,
        {p \in ProjectIds :
            /\ projects[p].status = "active"
            /\ (icontains(TitleOf(p), q) \/ icontains(DescriptionOf(p), q))})

\* the funded_percentage of one row of the JSON answer, in tenths of a percent
AjaxFundedPercentage(o) ==
    IF o.target_amount > 0
    THEN round1(o.donation_amount * 100, o.target_amount)
    ELSE 0

AjaxRows(ids) ==
    [i \in 1..Len(ids) |->
        [slug |-> ids[i],
         funded_percentage |-> AjaxFundedPercentage(projects[ids[i]])]]

\* views.search_projects
ViewsSearch(r, q) ==
    /\ Free(r)
    /\ req' = [req EXCEPT ![r] =
           [Finish(Begin(r, "views.search_projects", Anonymous, 0, 0), "ok")
               EXCEPT !.body =
                   IF Len(q) < MinQueryLen THEN <<>>
                   ELSE AjaxRows(Take(SearchMatches(q), ViewsSearchLimit))]]
    /\ UNCHANGED <<projects, donations, comments, likes, likeSeq, now>>

\* ProjectsViews.search_projects_ajax
PvSearch(r, q) ==
    /\ Free(r)
    /\ req' = [req EXCEPT ![r] =
           [Finish(Begin(r, "ProjectsViews.search_projects_ajax",
                         Anonymous, 0, 0), "ok")
               EXCEPT !.body =
                   IF Len(strip(q)) < MinQueryLen THEN <<>>
                   ELSE AjaxRows(Take(SearchMatches(strip(q)),
                                      AjaxSearchLimit))]]
    /\ UNCHANGED <<projects, donations, comments, likes, likeSeq, now>>

\* time passes
Tick ==
    /\ now < MaxTime
    /\ now' = now + 1
    /\ UNCHANGED <<projects, donations, comments, likes, likeSeq, req>>

Next ==
    \/ \E r \in Req, u \in Users, p \in ProjectIds, a \in Amounts :
           ViewsDonate(r, u, p, a)
    \/ \E r \in Req, u \in Users, p \in ProjectIds, a \in Amounts :
           PvDonate(r, u, p, a)
    \/ \E r \in Req, u \in Users, p \in ProjectIds, a \in Amounts :
           ServiceLoad(r, u, p, a)
    \/ \E r \in Req : ServiceCheck(r)
    \/ \E r \in Req : SaveInsert(r)
    \/ \E r \in Req : SaveExists(r)
    \/ \E r \in Req : SaveUpdate(r)
    \/ \E r \in Req : ServiceRefresh(r)
    \/ \E r \in Req, u \in Users \cup {Anonymous}, p \in ProjectIds :
           ViewsDetailLoad(r, u, p)
    \/ \E r \in Req : ViewsDetailSave(r)
    \/ \E r \in Req, u \in Users \cup {Anonymous}, p \in ProjectIds :
           PvDetail(r, u, p)
    \/ \E r \in Req, u \in Users, p \in ProjectIds, valid \in BOOLEAN :
           AddComment(r, u, p, valid)
    \/ \E r \in Req, u \in Users, p \in ProjectIds : LikeGet(r, u, p)
    \/ \E r \in Req : LikeCreate(r)
    \/ \E r \in Req : LikeDelete(r)
    \/ \E r \in Req, q \in Queries : ViewsSearch(r, q)
    \/ \E r \in Req, q \in Queries : PvSearch(r, q)
    \/ Tick

Spec == Init /\ [][Next]_vars

\* toggle_like alone, served by workers that take one request after another
LikeNext ==
    \/ \E r \in Req, u \in Users, p \in ProjectIds : LikeGet(r, u, p)
    \/ \E r \in Req : LikeCreate(r)
    \/ \E r \in Req : LikeDelete(r)
    \/ \E r \in Req : Recycle(r)

LikeSpec == Init /\ [][LikeNext]_vars

(* ------------------------------------------------------------------ *)
(* Discovery: searches, rankings, recommendations, list pages           *)
(* ------------------------------------------------------------------ *)
\* request r answers query k with outcome res and rows b
Respond(r, k, u, p, a, res, b) ==
    /\ req' = [req EXCEPT ![r] =
           [Finish([Begin(r, k, u, p, 0) EXCEPT !.args = a], res)
               EXCEPT !.body = b]]
    /\ UNCHANGED <<projects, donations, comments, likes, likeSeq, now>>

\* ProjectsService.search_projects(query, filters)
SearchProjects(r, q, f) ==
    /\ Free(r)
    /\ LET out == search_projects(q, f) IN
       \E s \in out.seqs :
           Respond(r, "search_projects", Anonymous, 0, Args(q, f, 0),
                   out.result, s)

\* ProjectSearchService.advanced_search(filters)
AdvancedSearch(r, f) ==
    /\ Free(r)
    /\ LET out == advanced_search(f) IN
       \E s \in out.seqs :
           Respond(r, "advanced_search", Anonymous, 0, Args(<<>>, f, 0),
                   out.result, s)

\* ProjectSearchService.autocomplete_search(query)
Autocomplete(r, q) ==
    /\ Free(r)
    /\ \E s \in autocomplete_search(q) :
           Respond(r, "autocomplete_search", Anonymous, 0,
                   Args(q, NoFilters, AutocompleteLimit), "ok", s)

\* ProjectsService.get_featured_projects()
Featured(r) ==
    /\ Free(r)
    /\ \E s \in get_featured_projects :
           Respond(r, "get_featured_projects", Anonymous, 0,
                   Args(<<>>, NoFilters, FeaturedLimit), "ok", s)

\* ProjectsService.get_trending_projects(limit=n)
Trending(r, n) ==
    /\ Free(r)
    /\ \E s \in get_trending_projects(n) :
           Respond(r, "get_trending_projects", Anonymous, 0,
                   Args(<<>>, NoFilters, n), "ok", s)

\* ProjectsService.get_similar_projects(project)
Similar(r, p) ==
    /\ Free(r)
    /\ \E s \in get_similar_projects(projects[p]) :
           Respond(r, "get_similar_projects", Anonymous, p,
                   Args(<<>>, NoFilters, SimilarLimit), "ok", s)

\* ProjectRecommendationService.get_recommendations_for_user(user, limit=n)
Recommend(r, u, n) ==
    /\ Free(r)
    /\ \E out \in get_recommendations_for_user(u, n) :
           Respond(r, "get_recommendations_for_user", u, 0,
                   Args(<<>>, NoFilters, n), out.result, out.body)

\* ProjectRecommendationService.get_similar_projects_collaborative
SimilarCollaborative(r, p, n) ==
    /\ Free(r)
    /\ LET out == get_similar_projects_collaborative(projects[p], n) IN
       Respond(r, "get_similar_projects_collaborative", Anonymous, p,
               Args(<<>>, NoFilters, n), out.result, out.body)

\* views.projects
ViewsProjects(r, f) ==
    /\ Free(r)
    /\ \E out \in views_projects(f) :
           Respond(r, "views.projects", Anonymous, 0, Args(<<>>, f, 0),
                   out.result, out.body)

\* ProjectsViews.projects_list
PvProjectsList(r, f) ==
    /\ Free(r)
    /\ \E out \in projects_list(f) :
           Respond(r, "ProjectsViews.projects_list", Anonymous, 0,
                   Args(<<>>, f, 0), out.result, out.body)

\* views.projects_by_category
ViewsByCategory(r, name) ==
    /\ Free(r)
    /\ \E out \in views_by_category(name) :
           Respond(r, "views.projects_by_category", Anonymous, 0,
                   Args(<<>>, [NoFilters EXCEPT !.category = name], 0),
                   out.result, out.body)

\* ProjectsViews.projects_by_category
PvByCategory(r, name, sort) ==
    /\ Free(r)
    /\ \E out \in pv_by_category(name, sort) :
           Respond(r, "ProjectsViews.projects_by_category", Anonymous, 0,
                   Args(<<>>, [NoFilters EXCEPT !.category = name,
                                                !.sort = sort], 0),
                   out.result, out.body)

\* views.index
Index(r) ==
    /\ Free(r)
    /\ \E s \in index :
           Respond(r, "views.index", Anonymous, 0,
                   Args(<<>>, NoFilters, IndexLimit), "ok", s)

\* queries and parameters a client may send
SearchQueries == {<<"d">>, <<"k", "a">>, <<"k">>}
SortKeys ==
    {"", "newest", "oldest", "most_funded", "least_funded", "ending_soon",
     "most_popular", "alphabetical", "relevance", "bogus"}
CategoryInputs == {<<"k", "a">>, <<"k", "z">>, AllCategories}
\* a target amount between those of the two projects, in pence
MidTarget == 5000
TrendingLimits == {1, TrendingLimit}
RecommendLimits == {1, 2, 6}

BySort == {[NoFilters EXCEPT !.sort = s] : s \in SortKeys}
ByCategory == {[NoFilters EXCEPT !.category = c] : c \in CategoryInputs}
\* the pairs of query and filters sent to search_projects
SearchInputs ==
    ({<<>>, <<"d">>} \X BySort)
    \cup ({<<>>} \X
           (ByCategory
            \cup {[NoFilters EXCEPT !.status = s] :
                    s \in {"funded", "active", "ending_soon"}}
            \cup {[NoFilters EXCEPT !.min_amount = MidTarget],
                  [NoFilters EXCEPT !.max_amount = MidTarget]}))
    \cup {<<<<"k", "a">>, NoFilters>>}
AdvancedFilterInputs ==
    {[NoFilters EXCEPT !.query = q, !.category = c, !.funding_status = fs] :
        q \in {<<>>, <<"d">>}, c \in {<<>>, <<"k", "a">>},
        fs \in {"", "not_funded", "funded", "nearly_funded"}}
    \cup {[NoFilters EXCEPT !.query = q, !.category = c, !.time_filter = tf] :
            q \in {<<>>, <<"d">>}, c \in {<<>>, <<"k", "a">>},
            tf \in {"ending_soon", "just_started", "long_running"}}
    \cup {[NoFilters EXCEPT !.min_price = MidTarget],
          [NoFilters EXCEPT !.max_price = MidTarget],
          [NoFilters EXCEPT !.query = <<"d">>, !.sort = "relevance"],
          [NoFilters EXCEPT !.query = <<"d">>, !.min_amount = MidTarget]}
ViewFilterInputs ==
    {[NoFilters EXCEPT !.sort = s] :
        s \in {"", "oldest", "most_funded", "least_funded", "ending_soon",
               "most_popular", "bogus"}}
    \cup ByCategory
    \cup {[NoFilters EXCEPT !.query = <<"d">>]}
PvFilterInputs ==
    BySort \cup ByCategory
    \cup {[NoFilters EXCEPT !.query = <<" ", "d">>]}
    \cup {[NoFilters EXCEPT !.status = s] : s \in {"funded", "ending_soon"}}
    \cup {[NoFilters EXCEPT !.min_price = MidTarget],
          [NoFilters EXCEPT !.max_price = MidTarget]}

\* creation times: more than LongRunningDays ago, or yesterday
OldProject == 0 - LongRunningDays * DayLen - 1
\* an end time later than the ending_soon window
FarEnd == EndingSoonDays * DayLen + 1
\* the time of a record older than the trending window
OldActivity == 0 - TrendingDays * DayLen - 1

DonationRow(p, u, a, t) ==
    [project |-> p, donor |-> u, amount |-> a, created_at |-> t,
     request |-> 0]
CommentRow(p, u, t) == [project |-> p, user |-> u, created_at |-> t]
LikeRow(i, p, u, t) == [id |-> i, project |-> p, user |-> u, created_at |-> t]

\* the donation tables with at most MaxRows rows drawn from the list L
RowSeqs(L) ==
    UNION {{[i \in 1..n |-> L[x[i]]] :
               x \in {y \in [1..n -> 1..Len(L)] :
                         \A i, j \in 1..n : i < j => y[i] <= y[j]}} :
           n \in 0..MaxRows}

RECURSIVE RaisedBy(_, _)
RaisedBy(ds, p) ==
    IF ds = <<>> THEN 0
    ELSE (IF Head(ds).project = p THEN Head(ds).amount ELSE 0)
         + RaisedBy(Tail(ds), p)

\* the project rows after the donations ds have been recorded one by one
WithDonations(rows, ds) ==
    [p \in ProjectIds |->
        [rows[p] EXCEPT
            !.donation_amount = RaisedBy(ds, p),
            !.donors = Cardinality({ds[i].donor :
                           i \in {j \in 1..Len(ds) : ds[j].project = p}})]]

\* projects that differ in status, age, category, end and views, with
\* donations of two sizes
SearchInit ==
    /\ \E s1, s2 \in {"active", "completed"}, c1, c2 \in {OldProject, 0 - 1},
          v \in BOOLEAN,
          ds \in RowSeqs(<<DonationRow(1, "u2", 2500, 0),
                           DonationRow(1, "u2", 8000, 0),
                           DonationRow(2, "u1", 2500, 0),
                           DonationRow(2, "u1", 8000, 0)>>) :
           /\ donations = ds
           /\ projects = WithDonations(
                  [p \in ProjectIds |->
                      IF p = 1
                      THEN [NewProject(1, s1, 1) EXCEPT !.created_at = c1]
                      ELSE IF v
                      THEN [NewProject(2, s2, 3) EXCEPT !.created_at = c2]
                      ELSE [NewProject(2, s2, FarEnd) EXCEPT
                               !.created_at = c2,
                               !.category = CategoryOf(1),
                               !.views_count = 1]], ds)
    /\ comments = <<>>
    /\ likes = {}
    /\ likeSeq = 0
    /\ now = 0
    /\ req = [r \in Req |-> IdleReq]

\* projects with donations, comments and likes, recent and old
ActivityInit ==
    /\ \E s2 \in {"active", "completed"}, k \in CategoryNames,
          ds \in RowSeqs(<<DonationRow(1, "u1", 2500, 0),
                           DonationRow(1, "u2", 2500, 0),
                           DonationRow(2, "u1", 2500, 0),
                           DonationRow(1, "u2", 2500, OldActivity)>>) :
           /\ donations = ds
           /\ projects = WithDonations(
                  [p \in ProjectIds |->
                      IF p = 1 THEN NewProject(1, "active", 1)
                      ELSE [NewProject(2, s2, 3) EXCEPT !.category = k]], ds)
    /\ comments \in {<<>>, <<CommentRow(1, "u1", 0)>>,
                     <<CommentRow(1, "u1", OldActivity)>>}
    /\ likes \in {{}, {LikeRow(1, 1, "u1", 0)},
                  {LikeRow(1, 1, "u1", 0), LikeRow(2, 1, "u2", 0)},
                  {LikeRow(1, 1, "u1", OldActivity)}}
    /\ likeSeq = Cardinality(likes)
    /\ now = 0
    /\ req = [r \in Req |-> IdleReq]

QueryInit == SearchInit \/ ActivityInit

\* the second request of a run asks again what the first one asked
Repeats(r, k, u, p, a) ==
    \/ r = 1
    \/ /\ req[1].pc = "done" /\ req[1].kind = k /\ req[1].user = u
       /\ req[1].project = p /\ req[1].args = a

QueryNext ==
    \/ \E r \in Req, i \in SearchInputs :
           /\ Repeats(r, "search_projects", Anonymous, 0,
                      Args(i[1], i[2], 0))
           /\ SearchProjects(r, i[1], i[2])
    \/ \E r \in Req, f \in AdvancedFilterInputs :
           /\ Repeats(r, "advanced_search", Anonymous, 0, Args(<<>>, f, 0))
           /\ AdvancedSearch(r, f)
    \/ \E r \in Req, q \in SearchQueries :
           /\ Repeats(r, "autocomplete_search", Anonymous, 0,
                      Args(q, NoFilters, AutocompleteLimit))
           /\ Autocomplete(r, q)
    \/ \E r \in Req :
           /\ Repeats(r, "get_featured_projects", Anonymous, 0,
                      Args(<<>>, NoFilters, FeaturedLimit))
           /\ Featured(r)
    \/ \E r \in Req, n \in TrendingLimits :
           /\ Repeats(r, "get_trending_projects", Anonymous, 0,
                      Args(<<>>, NoFilters, n))
           /\ Trending(r, n)
    \/ \E r \in Req, p \in ProjectIds :
           /\ Repeats(r, "get_similar_projects", Anonymous, p,
                      Args(<<>>, NoFilters, SimilarLimit))
           /\ Similar(r, p)
    \/ \E r \in Req, u \in Users, n \in RecommendLimits :
           /\ Repeats(r, "get_recommendations_for_user", u, 0,
                      Args(<<>>, NoFilters, n))
           /\ Recommend(r, u, n)
    \/ \E r \in Req, f \in ViewFilterInputs :
           /\ Repeats(r, "views.projects", Anonymous, 0, Args(<<>>, f, 0))
           /\ ViewsProjects(r, f)
    \/ \E r \in Req, f \in PvFilterInputs :
           /\ Repeats(r, "ProjectsViews.projects_list", Anonymous, 0,
                      Args(<<>>, f, 0))
           /\ PvProjectsList(r, f)
    \/ \E r \in Req, c \in CategoryInputs :
           /\ Repeats(r, "views.projects_by_category", Anonymous, 0,
                      Args(<<>>, [NoFilters EXCEPT !.category = c], 0))
           /\ ViewsByCategory(r, c)
    \/ \E r \in Req, c \in CategoryInputs,
          s \in {"", "most_funded", "ending_soon"} :
           /\ Repeats(r, "ProjectsViews.projects_by_category", Anonymous, 0,
                      Args(<<>>, [NoFilters EXCEPT !.category = c,
                                                   !.sort = s], 0))
           /\ PvByCategory(r, c, s)
    \/ \E r \in Req :
           /\ Repeats(r, "views.index", Anonymous, 0,
                      Args(<<>>, NoFilters, IndexLimit))
           /\ Index(r)
    \/ \E q \in Queries : ViewsSearch(1, q)
    \/ \E q \in Queries : PvSearch(1, q)

QuerySpec == QueryInit /\ [][QueryNext]_vars

(* ------------------------------------------------------------------ *)
(* A larger catalogue for the recommendations                           *)
(* ------------------------------------------------------------------ *)
\* four categories; projects 1..4 are one per category and are the ones
\* u1 has backed, projects 5..8 are candidates backed by u2 only
CatalogCategories == <<<<"k", "a">>, <<"k", "b">>, <<"k", "c">>, <<"k", "d">>>>
BackedIds == {1, 2, 3, 4}
CandidateIds == {5, 6, 7, 8}
AffinityLimits == {1, 3}

\* k donations of 25.00 by user u to project p
RECURSIVE Gifts(_, _, _)
Gifts(p, u, k) ==
    IF k = 0 THEN <<>>
    ELSE <<DonationRow(p, u, 2500, 0)>> \o Gifts(p, u, k - 1)

RECURSIVE GiftsAll(_, _, _)
GiftsAll(ids, u, k) ==
    IF ids = {} THEN <<>>
    ELSE LET p == CHOOSE x \in ids : \A y \in ids : x <= y
         IN Gifts(p, u, k[p]) \o GiftsAll(ids \ {p}, u, k)

CatalogInit ==
    /\ \E n4 \in {1, 2}, st \in {"active", "completed"}, b8 \in BOOLEAN,
          cat \in [CandidateIds -> {CatalogCategories[1],
                                    CatalogCategories[2],
                                    CatalogCategories[4]}],
          k \in [CandidateIds -> {0, 1, 2}] :
           /\ k[5] <= 1 /\ k[6] <= 1 /\ k[7] >= 1 /\ k[8] >= 1
           /\ LET ds == GiftsAll(BackedIds, "u1",
                            [p \in BackedIds |-> IF p = 4 THEN n4 ELSE 2])
                        \o GiftsAll(CandidateIds, "u2", k)
                        \o (IF b8 THEN Gifts(8, "u1", 1) ELSE <<>>)
                  rows == [p \in BackedIds \cup CandidateIds |->
                              [NewProject(p, IF p = 5 THEN st ELSE "active",
                                          FarEnd)
                                  EXCEPT !.category =
                                      IF p \in BackedIds
                                      THEN CatalogCategories[p]
                                      ELSE cat[p]]]
              IN /\ donations = ds
                 /\ projects =
                      [p \in DOMAIN rows |->
                          [rows[p] EXCEPT
                              !.donation_amount = RaisedBy(ds, p),
                              !.donors = Cardinality({ds[i].donor :
                                  i \in {j \in 1..Len(ds) :
                                            ds[j].project = p}})]]
    /\ comments = <<>>
    /\ likes = {}
    /\ likeSeq = 0
    /\ now = 0
    /\ req = [r \in Req |-> IdleReq]

CatalogNext ==
    \/ \E u \in Users, n \in AffinityLimits : Recommend(1, u, n)
    \/ \E p \in {1, 8} : SimilarCollaborative(1, p, SimilarLimit)

CatalogSpec == CatalogInit /\ [][CatalogNext]_vars

(* ------------------------------------------------------------------ *)
(* Analytics: per-project prediction and platform statistics            *)
(* ------------------------------------------------------------------ *)
\* days in a month of the model's calendar; month 0 starts at tick 0
MonthLen == 2
MonthTicks == MonthLen * DayLen

\* timedelta.days of the difference t - s
DaysBetween(s, t) == (t - s) \div DayLen

\* datetime.replace(day=1): the first day of the month of t, at the time of
\* day of t
ReplaceDay1(t) == (t \div MonthTicks) * MonthTicks + (t % DayLen)

\* ProjectsService.get_project_analytics(project) at time t.  Amounts are
\* Decimal; required_daily_funding is at most 0.01 exactly when the pence
\* still needed are at most the days remaining, and then
\* max(required_daily_funding, 0.01) is the float 0.01, by which a Decimal
\* cannot be divided.
get_project_analytics(o, t) ==
    LET days_active == Max(DaysBetween(o.created_at, t), 1)
        days_remaining == Max(days_left(o, t), 1)
        amount_needed == o.target_amount - o.donation_amount
        funding_velocity == Rat(o.donation_amount, days_active)
        required_daily_funding ==
            IF amount_needed > 0 THEN Rat(amount_needed, days_remaining)
            ELSE Rat(0, 1)
        pct == funded_percentage(o)
        ratio == Rat(pct[1] * funding_velocity[1] * required_daily_funding[2],
                     pct[2] * 100 * funding_velocity[2]
                         * Max(required_daily_funding[1], 1))
        out == [funding_velocity |-> funding_velocity,
                required_daily_funding |-> required_daily_funding,
                days_active |-> days_active,
                success_probability |-> Rat(1, 1)]
    IN IF required_daily_funding[1] > 0
       THEN IF RatLeq(required_daily_funding, Rat(1, 1))
            THEN [result |-> "TypeError", body |-> <<>>]
            ELSE [result |-> "ok",
                  body |-> <<[out EXCEPT !.success_probability =
                                IF RatLeq(ratio, Rat(1, 1)) THEN ratio
                                ELSE Rat(1, 1)]>>]
       ELSE [result |-> "ok", body |-> <<out>>]

\* active projects that have reached their target:
\* filter(donation_amount__gte=F('target_amount'))
FundedActive_strict ==
    {p \in ActiveIds : projects[p].donation_amount > projects[p].target_amount}

FundedActive ==
    {p \in ActiveIds : projects[p].donation_amount >= projects[p].target_amount}

\* ProjectsService.calculate_platform_stats() at time t; rates are
\* fractions <<numerator, denominator>>
calculate_platform_stats(t) ==
    LET total_projects == Cardinality(ActiveIds)
        current_month == ReplaceDay1(t)
        last_month == ReplaceDay1(current_month - DayLen)
        current_month_projects ==
            Cardinality({p \in ActiveIds :
                            projects[p].created_at >= current_month})
        last_month_projects ==
            Cardinality({p \in ActiveIds :
                            /\ projects[p].created_at >= last_month
                            /\ projects[p].created_at < current_month})
    IN [total_projects |-> total_projects,
        success_rate |-> <<Cardinality(FundedActive) * 100,
                           Max(total_projects, 1)>>,
        current_month_projects |-> current_month_projects,
        last_month_projects |-> last_month_projects,
        monthly_growth |->
            IF last_month_projects > 0
            THEN <<(current_month_projects - last_month_projects) * 100,
                   last_month_projects>>
            ELSE IF current_month_projects > 0 THEN <<100, 1>> ELSE <<0, 1>>]

\* ProjectsService.get_project_analytics
Analytics(r, p) ==
    /\ Free(r)
    /\ LET out == get_project_analytics(projects[p], now) IN
       Respond(r, "get_project_analytics", Anonymous, p,
               Args(<<>>, NoFilters, 0), out.result, out.body)

\* ProjectsService.calculate_platform_stats
PlatformStats(r) ==
    /\ Free(r)
    /\ Respond(r, "calculate_platform_stats", Anonymous, 0,
               Args(<<>>, NoFilters, 0), "ok",
               <<calculate_platform_stats(now)>>)

\* the clock is in month 0; the projects were created in this month, in
\* the month before or earlier, and end today, tomorrow or later
StatsInit ==
    /\ now \in 0..(MonthTicks - 1)
    /\ \E c1 \in (0 - MonthTicks - 1)..now, c2 \in {0 - MonthTicks, 0},
          s1, s2 \in {"active", "completed"},
          e \in {now + 1, now + DayLen, now + FarEnd},
          ds \in RowSeqs(<<DonationRow(1, "u2", 2500, now),
                           DonationRow(1, "u2", 7500, now),
                           DonationRow(1, "u1", 9999, now),
                           DonationRow(2, "u1", 2500, now)>>) :
           /\ donations = ds
           /\ projects = WithDonations(
                  [p \in ProjectIds |->
                      IF p = 1
                      THEN [NewProject(1, s1, e) EXCEPT !.created_at = c1]
                      ELSE [NewProject(2, s2, now + FarEnd)
                               EXCEPT !.created_at = c2]], ds)
    /\ comments = <<>>
    /\ likes = {}
    /\ likeSeq = 0
    /\ req = [r \in Req |-> IdleReq]

StatsNext ==
    \/ \E p \in ProjectIds : Analytics(1, p)
    \/ PlatformStats(1)

StatsSpec == StatsInit /\ [][StatsNext]_vars

(* ------------------------------------------------------------------ *)
(* Funding-status filters of the advanced search                        *)
(* ------------------------------------------------------------------ *)
\* a target of 3.00 for the second project
SmallTarget == 300

FundingFilterInputs ==
    {[NoFilters EXCEPT !.funding_status = fs, !.query = q, !.max_price = m] :
        fs \in {"", "not_funded", "funded", "nearly_funded"},
        q \in {<<>>, <<"d">>}, m \in {0, MidTarget}}

\* projects below, at 80% of, at and above their targets
FundingInit ==
    /\ \E s1, s2 \in {"active", "completed"},
          ds \in RowSeqs(<<DonationRow(1, "u2", 2500, 0),
                           DonationRow(1, "u2", 8000, 0),
                           DonationRow(2, "u1", 240, 0),
                           DonationRow(2, "u1", 300, 0)>>) :
           /\ donations = ds
           /\ projects = WithDonations(
                  [p \in ProjectIds |->
                      IF p = 1 THEN NewProject(1, s1, 1)
                      ELSE [NewProject(2, s2, 3)
                               EXCEPT !.target_amount = SmallTarget]], ds)
    /\ comments = <<>>
    /\ likes = {}
    /\ likeSeq = 0
    /\ now = 0
    /\ req = [r \in Req |-> IdleReq]

FundingNext == \E f \in FundingFilterInputs : AdvancedSearch(1, f)

FundingSpec == FundingInit /\ [][FundingNext]_vars

(* ------------------------------------------------------------------ *)
(* Projects.save: the slug of a project                                 *)
(* ------------------------------------------------------------------ *)
\* characters slugify removes, and characters it turns into one hyphen
Punctuation == {"!"}
Separators == {" ", "-"}

\* re.sub(r'[-\s]+', '-', value)
RECURSIVE Collapse(_)
Collapse(s) ==
    IF s = <<>> THEN <<>>
    ELSE IF Head(s) \in Separators
    THEN IF Len(s) > 1 /\ s[2] \in Separators THEN Collapse(Tail(s))
         ELSE <<"-">> \o Collapse(Tail(s))
    ELSE <<Head(s)>> \o Collapse(Tail(s))

\* str.strip('-_')
RECURSIVE StripDashes(_)
StripDashes(s) ==
    IF s = <<>> THEN s
    ELSE IF Head(s) \in {"-", "_"} THEN StripDashes(Tail(s))
    ELSE IF s[Len(s)] \in {"-", "_"}
    THEN StripDashes(SubSeq(s, 1, Len(s) - 1))
    ELSE s

\* django.utils.text.slugify: lower case, characters other than word
\* characters, white space and hyphens removed, runs of white space and
\* hyphens turned into one hyphen, hyphens and underscores at the ends
\* removed
slugify(t) ==
    StripDashes(Collapse(SelectSeq(LowerSeq(t),
                                   LAMBDA c : c \notin Punctuation)))

\* str(counter)
RECURSIVE Str(_)
Str(n) ==
    LET digit == <<"0", "1", "2", "3", "4", "5", "6", "7", "8", "9">>
    IN IF n < 10 THEN <<digit[n + 1]>>
       ELSE Str(n \div 10) \o <<digit[(n % 10) + 1]>>

\* f"{original_slug}-{counter}"
WithCounter(sl, k) == sl \o <<"-">> \o Str(k)

\* titles a creator may give: two that differ only in case and
\* punctuation, one that slugifies to a slug with a counter, one that
\* slugifies to the empty string
Titles == {<<"a">>, <<"A", "!">>, <<"a", " ", "1">>, <<"!">>}

\* the columns of a Projects row that save() reads and writes; id 0 is an
\* instance that has not been inserted
ProjectRow(i, t, sl) == [id |-> i, title |-> t, slug |-> sl]

\* the slugs of the stored projects
StoredSlugs == {projects[i].slug : i \in DOMAIN projects}

\* a call of Projects.save on instance o: with an empty slug it enters the
\* loop that looks for a free slug, otherwise it goes on to super().save()
SaveCall(o) ==
    [pc |-> IF o.slug = <<>> THEN "slug_check" ELSE "write",
     kind |-> "Projects.save",
     obj |-> IF o.slug = <<>> THEN [o EXCEPT !.slug = slugify(o.title)]
             ELSE o,
     original_slug |-> IF o.slug = <<>> THEN slugify(o.title) ELSE o.slug,
     counter |-> 1,
     result |-> "none"]

\* a new project is saved for the first time
CreateProject(r, t) ==
    /\ Free(r)
    /\ Len(projects)
           + Cardinality({q \in Req : req[q].kind = "Projects.save"
                                         /\ req[q].pc # "done"
                                         /\ req[q].obj.id = 0})
           < MaxProjects
    /\ req' = [req EXCEPT ![r] = SaveCall(ProjectRow(0, t, <<>>))]
    /\ UNCHANGED <<projects, donations, comments, likes, likeSeq, now>>

\* a stored project is loaded and saved again
ResaveProject(r, i) ==
    /\ Free(r)
    /\ req' = [req EXCEPT ![r] = SaveCall(projects[i])]
    /\ UNCHANGED <<projects, donations, comments, likes, likeSeq, now>>

\* one turn of: while Projects.objects.filter(slug=self.slug).exists()
SlugCheck(r) ==
    /\ req[r].pc = "slug_check"
    /\ req' = [req EXCEPT ![r] =
           IF req[r].obj.slug \in StoredSlugs
           THEN [req[r] EXCEPT
                    !.obj.slug = WithCounter(req[r].original_slug,
                                             req[r].counter),
                    !.counter = @ + 1]
           ELSE [req[r] EXCEPT !.pc = "write"]]
    /\ UNCHANGED <<projects, donations, comments, likes, likeSeq, now>>

\* super().save(): INSERT or UPDATE; the column slug is unique
SaveWrite_nounique(r) ==
    /\ req[r].pc = "write"
    /\ LET o == req[r].obj IN
       /\ projects' = IF o.id = 0
                      THEN Append(projects,
                                  [o EXCEPT !.id = Len(projects) + 1])
                      ELSE [projects EXCEPT ![o.id] = o]
       /\ req' = [req EXCEPT ![r] =
              [req[r] EXCEPT !.pc = "done", !.result = "ok"]]
    /\ UNCHANGED <<donations, comments, likes, likeSeq, now>>

SaveWrite(r) ==
    /\ req[r].pc = "write"
    /\ LET o == req[r].obj
           clash == \E i \in DOMAIN projects :
                        i # o.id /\ projects[i].slug = o.slug
       IN /\ projects' = IF clash THEN projects
                         ELSE IF o.id = 0
                         THEN Append(projects,
                                     [o EXCEPT !.id = Len(projects) + 1])
                         ELSE [projects EXCEPT ![o.id] = o]
          /\ req' = [req EXCEPT ![r] =
                 [req[r] EXCEPT
                     !.pc = "done",
                     !.result = IF clash THEN "IntegrityError" ELSE "ok"]]
    /\ UNCHANGED <<donations, comments, likes, likeSeq, now>>

\* the caller of save() is done with the instance
SaveReturn(r) ==
    /\ req[r].pc = "done"
    /\ req[r].kind = "Projects.save"
    /\ req' = [req EXCEPT ![r] = IdleReq]
    /\ UNCHANGED <<projects, donations, comments, likes, likeSeq, now>>

\* no project is stored
SlugInit ==
    /\ projects = <<>>
    /\ donations = <<>>
    /\ comments = <<>>
    /\ likes = {}
    /\ likeSeq = 0
    /\ now = 0
    /\ req = [r \in Req |-> IdleReq]

SlugNext ==
    \/ \E r \in Req, t \in Titles : CreateProject(r, t)
    \/ \E r \in Req, i \in DOMAIN projects : ResaveProject(r, i)
    \/ \E r \in Req : SlugCheck(r)
    \/ \E r \in Req : SaveWrite(r)
    \/ \E r \in Req : SaveReturn(r)

SlugSpec == SlugInit /\ [][SlugNext]_vars

(* ------------------------------------------------------------------ *)
(* Properties                                                           *)
(* ------------------------------------------------------------------ *)
Rows(p) == {i \in 1..Len(donations) : donations[i].project = p}

RECURSIVE SumAmounts(_)
SumAmounts(is) ==
    IF is = {} THEN 0
    ELSE LET i == CHOOSE j \in is : TRUE
         IN donations[i].amount + SumAmounts(is \ {i})

DonorsOf(p) == {donations[i].donor : i \in Rows(p)}

\* no request is in flight
Quiescent == \A r \in Req : req[r].pc \in {"idle", "done"}

\* request r performs the aggregate write of Donation.save in this step
Writes(r) == req[r].pc = "update" /\ req'[r].pc # "update"

\* donor u has a donation to p recorded before row pk
EarlierDonation(p, u, pk) ==
    \E i \in Rows(p) : i < pk /\ donations[i].donor = u

\* C1: recording a new donation of amount A by donor D to project P raises
\* P's donation_amount by exactly A, and P's donors by 1 if D has no earlier
\* donation to P and by 0 otherwise.
C1_SaveAddsAmountAndDonor ==
    [][\A r \in Req :
          Writes(r) =>
              LET p == req[r].project IN
              /\ projects'[p].donation_amount =
                     projects[p].donation_amount + req[r].amount
              /\ projects'[p].donors =
                     projects[p].donors +
                     (IF EarlierDonation(p, req[r].user, req[r].pk)
                      THEN 0 ELSE 1)]_vars

\* C2: once all concurrent donation requests have completed, the raised
\* amount of every project is its initial amount (0) plus the sum of the
\* amounts of its donation rows.
C2_NoDonationLost ==
    Quiescent =>
        \A p \in ProjectIds :
            projects[p].donation_amount = SumAmounts(Rows(p))

\* C3: once all concurrent donation requests have completed, the donor count
\* of every project is the number of distinct donors with a donation row.
C3_DonorCountExact ==
    Quiescent =>
        \A p \in ProjectIds :
            projects[p].donors = Cardinality(DonorsOf(p))

\* C4: the raised amount of a project never decreases.
C4_RaisedNeverDecreases ==
    [][\A p \in ProjectIds :
          projects'[p].donation_amount >= projects[p].donation_amount]_vars

\* the cases in which process_donation must fail, at the time of its checks
MustFail(r) ==
    \/ req[r].amount < MinDonation
    \/ req[r].obj.status # "active"
    \/ req[r].obj.end_date <= now

\* C5: process_donation fails with an error whenever the amount is below
\* 1.00, the project is not active or its end time has passed, and then it
\* creates no donation row and leaves raised amount and donor count as they
\* were; a failed call never owns a donation row.
C5_ProcessDonationRejects ==
    [][\A r \in Req :
          (req[r].pc = "check" /\ req'[r].pc # "check" /\ MustFail(r)) =>
              /\ req'[r].pc = "done"
              /\ req'[r].result = "ValueError"
              /\ donations' = donations
              /\ projects' = projects
              /\ \A i \in 1..Len(donations') : donations'[i].request # r]_vars

C5_Witness ==
    \E r, s \in Req :
        /\ req[r].kind = "process_donation" /\ req[r].result = "ValueError"
        /\ req[r].amount < MinDonation
        /\ req[r].obj.status = "active"
        /\ req[s].kind = "process_donation" /\ req[s].result = "ValueError"
        /\ req[s].amount >= MinDonation
        /\ req[s].obj.status # "active"

\* C6: a donation row exists only if, at the time of its request, the
\* project was active and its end time had not passed.
C6_OnlyOpenCampaigns ==
    \A i \in 1..Len(donations) :
        LET d == donations[i]
            o == projects[d.project]
        IN /\ o.status = "active"
           /\ o.end_date > req[d.request].started

\* C7: no donation row has the creator of its project as donor.
C7_NoSelfDonation ==
    \A i \in 1..Len(donations) :
        donations[i].donor # projects[donations[i].project].creator

\* C8: every funded percentage reported lies in [0, 100]: the property
\* Projects.funded_percentage and the funded_percentage field of the AJAX
\* search answers (in tenths of a percent: [0, 1000]).
C8_PercentageInRange ==
    /\ \A p \in ProjectIds :
           /\ RatLeq(Rat(0, 1), funded_percentage(projects[p]))
           /\ RatLeq(funded_percentage(projects[p]), Rat(100, 1))
    /\ \A r \in Req : \A i \in 1..Len(req[r].body) :
           /\ req[r].body[i].funded_percentage >= 0
           /\ req[r].body[i].funded_percentage <= 1000

\* every project object: the stored rows and the requests' in-memory ones
Objects == {projects[p] : p \in ProjectIds} \cup {req[r].obj : r \in Req}

\* C9: for every project with target > 0, remaining_amount is
\* max(target - raised, 0), never negative.
C9_RemainingAmount ==
    \A o \in Objects :
        o.target_amount > 0 =>
            /\ remaining_amount(o) >= 0
            /\ (o.donation_amount <= o.target_amount =>
                   remaining_amount(o) + o.donation_amount = o.target_amount)
            /\ (o.donation_amount > o.target_amount =>
                   remaining_amount(o) = 0)

C9_Witness ==
    \E p \in ProjectIds :
        /\ projects[p].donation_amount > projects[p].target_amount
        /\ remaining_amount(projects[p]) = 0

\* C10: for every project with target > 0 the derived indicators agree:
\* is_funded iff funded_percentage = 100 iff remaining_amount = 0 (25.00 of
\* 100.00 is 25% with 75.00 remaining and not funded); the goal_reached flag
\* of process_donation is is_funded of the project after the donation.
C10_IndicatorsAgree ==
    /\ \A o \in Objects :
           o.target_amount > 0 =>
               /\ is_funded(o) <=> (funded_percentage(o) = <<100, 1>>)
               /\ is_funded(o) <=> (remaining_amount(o) = 0)
               /\ (o.target_amount = 10000 /\ o.donation_amount = 2500) =>
                      /\ funded_percentage(o) = <<25, 1>>
                      /\ remaining_amount(o) = 7500
                      /\ ~is_funded(o)
    /\ \A r \in Req :
           (req[r].kind = "process_donation" /\ req[r].result = "ok") =>
               req[r].goal_reached = is_funded(req[r].obj)

C10_Witness ==
    /\ Len(donations) = 2
    /\ donations[1].project = 1 /\ donations[1].amount = 2500
    /\ donations[2].project = 1 /\ donations[2].amount = 7500
    /\ projects[1].target_amount = 10000
    /\ projects[1].donation_amount = 10000
    /\ is_funded(projects[1])
    /\ funded_percentage(projects[1]) = <<100, 1>>
    /\ remaining_amount(projects[1]) = 0
    /\ req[2].kind = "process_donation" /\ req[2].result = "ok"
    /\ req[2].goal_reached

\* C11: toggle_like flips the like relation, also when toggles of one user
\* interleave: at most one like row exists per (project, user), the liked
\* flag a toggle reports is the existence of the row when it answers (so a
\* toggle that found no row leaves one, one that found a row leaves none).
C11_ToggleFlips ==
    [][\A r \in Req :
          (req[r].kind = "toggle_like" /\ req[r].pc # "done"
               /\ req'[r].pc = "done") =>
              /\ (req'[r].result = "liked") <=>
                     (\E l \in likes' : /\ l.project = req[r].project
                                         /\ l.user = req[r].user)
              /\ \A p \in ProjectIds, u \in Users :
                     Cardinality({l \in likes' :
                                     l.project = p /\ l.user = u}) <= 1]_vars

\* a step of request r that is part of recording a donation
DonationStep(r) ==
    /\ req[r].kind \in {"views.donate_to_project",
                        "ProjectsViews.donate_to_project",
                        "process_donation"}
    /\ req'[r] # req[r]

\* C12: only the recording of a donation changes a project's raised amount
\* or donor count: adding a comment, toggling a like, viewing the detail
\* page and searching leave both unchanged.
C12_OnlyDonationsChangeAggregates ==
    [][\A p \in ProjectIds :
          (\/ projects'[p].donation_amount # projects[p].donation_amount
           \/ projects'[p].donors # projects[p].donors) =>
              \E r \in Req : DonationStep(r) /\ req[r].project = p]_vars

\* a detail view has been counted on a project whose donation was recorded
\* while the view held its copy of the row
C12_Witness ==
    \E p \in ProjectIds, r, s \in Req :
        /\ req[r].kind = "views.project_detail" /\ req[r].pc = "done"
        /\ req[r].project = p
        /\ req[s].kind = "views.donate_to_project" /\ req[s].pc = "done"
        /\ req[s].project = p /\ req[s].result = "ok"
        /\ projects[p].views_count = 1
        /\ projects[p].donation_amount = req[s].amount
        /\ projects[p].donors = 1

\* the projects with status active
ActiveProjects == {p \in ProjectIds : projects[p].status = "active"}

\* the elements of a sequence
Range(s) == {s[i] : i \in DOMAIN s}

\* request r has answered query k normally
Answered(r, k) ==
    req[r].pc = "done" /\ req[r].kind = k /\ req[r].result = "ok"

\* C13: filtering with an empty query and no other filters returns exactly
\* the active projects: search_projects('', {}) and advanced_search({})
\* contain every active project, once, and no other project.
C13_EmptyQueryReturnsActive ==
    \A r \in Req :
        (/\ Answered(r, "search_projects") \/ Answered(r, "advanced_search")
         /\ req[r].args.query = <<>>
         /\ req[r].args.filters = NoFilters) =>
            /\ Range(req[r].body) = ActiveProjects
            /\ Len(req[r].body) = Cardinality(ActiveProjects)

C13_Witness ==
    \E r \in Req, p, q \in ProjectIds :
        /\ Answered(r, "advanced_search")
        /\ req[r].args.filters = NoFilters
        /\ projects[p].status = "active" /\ projects[q].status = "completed"
        /\ req[r].body = <<p>>

\* the projects in the answer of request r
ReturnedIds(r) ==
    IF req[r].kind \in {"views.search_projects",
                        "ProjectsViews.search_projects_ajax"}
    THEN {req[r].body[i].slug : i \in DOMAIN req[r].body}
    ELSE IF req[r].kind = "get_trending_projects"
    THEN {req[r].body[i].id : i \in DOMAIN req[r].body}
    ELSE IF req[r].kind = "autocomplete_search"
    THEN {req[r].body[i].slug :
             i \in {j \in DOMAIN req[r].body :
                       req[r].body[j].type = "project"}}
    ELSE Range(req[r].body)

\* C14: every project returned by a discovery operation (search_projects,
\* advanced_search, autocomplete_search, get_featured_projects,
\* get_trending_projects, get_similar_projects, get_recommendations_for_user,
\* the list, category and AJAX search views) has status active.
C14_OnlyActiveReturned ==
    \A r \in Req :
        req[r].pc = "done" =>
            \A p \in ReturnedIds(r) : projects[p].status = "active"

C14_Witness ==
    \E r \in Req :
        /\ Answered(r, "get_similar_projects")
        /\ projects[req[r].project].status = "completed"
        /\ projects[req[r].project].donation_amount > 0
        /\ Len(req[r].body) = 1

\* project row o satisfies every filter supplied in f to advanced_search
SatisfiesFilters(o, f) ==
    /\ f.category # <<>> => o.category = f.category
    /\ f.min_price # 0 => o.target_amount >= f.min_price
    /\ f.max_price # 0 => o.target_amount <= f.max_price
    /\ f.funding_status = "not_funded" => o.donation_amount < o.target_amount
    /\ f.funding_status = "funded" => o.donation_amount >= o.target_amount
    /\ f.funding_status = "nearly_funded" =>
           /\ 10 * o.donation_amount >= 8 * o.target_amount
           /\ o.donation_amount < o.target_amount
    /\ f.time_filter = "ending_soon" =>
           o.end_date > now /\ o.end_date <= now + EndingSoonDays * DayLen
    /\ f.time_filter = "just_started" =>
           o.created_at >= now - JustStartedDays * DayLen
    /\ f.time_filter = "long_running" =>
           o.created_at <= now - LongRunningDays * DayLen

\* C15: the filters supplied to advanced_search compose conjunctively: every
\* returned project satisfies every supplied filter (category name, minimum
\* and maximum target, funding status, time window), with or without a
\* query; a category filter without a query restricts the result to that
\* category.
C15_FiltersConjunctive ==
    \A r \in Req :
        Answered(r, "advanced_search") =>
            \A p \in Range(req[r].body) :
                SatisfiesFilters(projects[p], req[r].args.filters)

\* the rows of s are in creation time descending order
NewestOrdered(s) ==
    \A i, j \in DOMAIN s :
        i < j => projects[s[i]].created_at >= projects[s[j]].created_at

\* the sort keys each listing supports
SearchSortKeys == PvSortKeys \cup {"relevance"}
ViewsSortKeys ==
    {"newest", "oldest", "most_funded", "least_funded", "ending_soon"}

\* C16: for every sort key that is not a supported one, the result is
\* ordered as for newest (creation time descending) and is a sequence the
\* same request with sort key newest produces; in search_projects,
\* ProjectsViews.projects_list and views.projects.
C16_UnknownSortIsNewest ==
    \A r \in Req :
        LET f == req[r].args.filters
            asNewest == [f EXCEPT !.sort = "newest"]
        IN /\ (Answered(r, "search_projects")
                  /\ SortBy(f) \notin SearchSortKeys) =>
                  /\ NewestOrdered(req[r].body)
                  /\ req[r].body \in
                         search_projects(req[r].args.query, asNewest).seqs
           /\ (Answered(r, "ProjectsViews.projects_list")
                  /\ SortBy(f) \notin PvSortKeys) =>
                  /\ NewestOrdered(req[r].body)
                  /\ \E out \in projects_list(asNewest) :
                         out.body = req[r].body
           /\ (Answered(r, "views.projects")
                  /\ SortBy(f) \notin ViewsSortKeys) =>
                  /\ NewestOrdered(req[r].body)
                  /\ \E out \in views_projects(asNewest) :
                         out.body = req[r].body

C16_Witness ==
    \E r \in Req :
        /\ Answered(r, "search_projects")
        /\ req[r].args.filters.sort = "bogus"
        /\ Len(req[r].body) = 2
        /\ projects[req[r].body[1]].created_at
               > projects[req[r].body[2]].created_at
        /\ req[r].body[1] = 2

\* C17: every ordering is total and reproducible: the same query on the same
\* data always answers the same sequence, rows with equal sort key being
\* ordered by their identifier.
C17_OrderReproducible ==
    \A r, s \in Req :
        (/\ req[r].pc = "done" /\ req[s].pc = "done"
         /\ req[r].kind = req[s].kind /\ req[r].user = req[s].user
         /\ req[r].project = req[s].project /\ req[r].args = req[s].args) =>
            req[r].body = req[s].body

\* the raised amounts along a sequence of projects
RaisedAlong(s) == [i \in DOMAIN s |-> projects[s[i]].donation_amount]
Reverse(s) == [i \in DOMAIN s |-> s[Len(s) + 1 - i]]

\* what the listing of request r answers when only its sort key is changed
WithSort(r, key) ==
    LET f == [req[r].args.filters EXCEPT !.sort = key] IN
    IF req[r].kind = "search_projects"
    THEN search_projects(req[r].args.query, f).seqs
    ELSE IF req[r].kind = "ProjectsViews.projects_list"
    THEN {out.body : out \in projects_list(f)}
    ELSE {out.body : out \in views_projects(f)}

\* C18: for the same projects, query and filters, the sequence of sort key
\* most_funded is the reverse of the sequence of least_funded, up to the
\* order of projects with equal raised amount: the same projects, with the
\* raised amounts in reverse.
C18_MostFundedReversesLeastFunded ==
    \A r \in Req :
        (/\ req[r].pc = "done" /\ req[r].result = "ok"
         /\ req[r].kind \in {"search_projects", "ProjectsViews.projects_list",
                             "views.projects"}
         /\ req[r].args.filters.sort = "most_funded") =>
            \A s \in WithSort(r, "least_funded") :
                /\ Range(s) = Range(req[r].body)
                /\ Len(s) = Len(req[r].body)
                /\ RaisedAlong(s) = Reverse(RaisedAlong(req[r].body))

C18_Witness ==
    \E r \in Req :
        /\ Answered(r, "search_projects")
        /\ req[r].args.filters.sort = "most_funded"
        /\ Len(req[r].body) = 2
        /\ projects[req[r].body[1]].donation_amount
               > projects[req[r].body[2]].donation_amount
        /\ <<req[r].body[2], req[r].body[1]>> \in WithSort(r, "least_funded")

\* records of project p in the trailing window, each counted once
RecentDonationsOf(p) ==
    Cardinality({i \in 1..Len(donations) :
        /\ donations[i].project = p
        /\ donations[i].created_at >= now - TrendingDays * DayLen})
RecentCommentsOf(p) ==
    Cardinality({i \in 1..Len(comments) :
        /\ comments[i].project = p
        /\ comments[i].created_at >= now - TrendingDays * DayLen})
RecentLikesOf(p) ==
    Cardinality({l \in likes :
        /\ l.project = p
        /\ l.created_at >= now - TrendingDays * DayLen})

\* C19: the trending score of a project is 3 x its donations in the window
\* + 2 x its comments in the window + 1 x its likes in the window, each
\* record counted once also when the project has records of several kinds;
\* only projects with score > 0 are returned, in descending score order.
C19_TrendingScore ==
    \A r \in Req :
        Answered(r, "get_trending_projects") =>
            /\ \A i \in DOMAIN req[r].body :
                   LET row == req[r].body[i] IN
                   /\ row.trending_score =
                          3 * RecentDonationsOf(row.id)
                          + 2 * RecentCommentsOf(row.id)
                          + RecentLikesOf(row.id)
                   /\ row.trending_score > 0
            /\ \A i, j \in DOMAIN req[r].body :
                   i < j => req[r].body[i].trending_score
                                >= req[r].body[j].trending_score

\* C20: get_recommendations_for_user(user, limit) always returns normally,
\* with at most limit projects and no project twice, also when the
\* category-affinity path yields fewer than limit projects.
C20_RecommendationsReturn ==
    \A r \in Req :
        (req[r].pc = "done"
            /\ req[r].kind = "get_recommendations_for_user") =>
            /\ req[r].result = "ok"
            /\ Len(req[r].body) <= req[r].args.limit
            /\ \A i, j \in DOMAIN req[r].body :
                   i # j => req[r].body[i] # req[r].body[j]

\* C21: a donation of at least 1.00 to an active project whose end time is
\* still in the future is accepted by process_donation and by
\* ProjectsViews.donate_to_project, however close the end time is; it is
\* rejected as ended only when the end time has passed.
C21_OpenUntilEndTime ==
    [][\A r \in Req :
          /\ (/\ req[r].pc = "check" /\ req'[r].pc # "check"
              /\ req[r].amount >= MinDonation
              /\ req[r].obj.status = "active"
              /\ req[r].obj.end_date > now) =>
                 req'[r].pc = "insert"
          /\ (/\ req[r].pc = "idle"
              /\ req'[r].kind = "ProjectsViews.donate_to_project"
              /\ req'[r].amount >= MinDonation
              /\ projects[req'[r].project].status = "active"
              /\ projects[req'[r].project].end_date > now) =>
                 req'[r].pc = "insert"]_vars

\* the categories user u has donated in more often than in category c
BetterCategories(u, c) ==
    {d \in UserCategories(u) : donation_count(u, d) > donation_count(u, c)}

\* the candidates of category c that have raised more than project p
BetterCandidates(u, c, p) ==
    {q \in NotBacked(c, u) :
        projects[q].donation_amount > projects[p].donation_amount}

\* C22: the category-affinity part of get_recommendations_for_user takes
\* projects only from the user's 3 categories with the most donations by
\* that user, at most 2 per category, each active, of that category and
\* without a donation from the user, and within a category in descending
\* raised-amount order.
C22_CategoryAffinity ==
    \A r \in Req :
        Answered(r, "get_recommendations_for_user") =>
            LET b == req[r].body
                u == req[r].user
            IN /\ \A i \in DOMAIN b :
                      LET c == projects[b[i]].category
                      IN /\ projects[b[i]].status = "active"
                         /\ c \in UserCategories(u)
                         /\ Cardinality(BetterCategories(u, c)) < TopCategories
                         /\ \A j \in DonationsOf(b[i]) :
                                donations[j].donor # u
                         /\ Cardinality({j \in DOMAIN b :
                                projects[b[j]].category = c}) <= PerCategory
                         /\ Cardinality(BetterCandidates(u, c, b[i]))
                                < PerCategory
               /\ Cardinality({projects[b[i]].category : i \in DOMAIN b})
                      <= TopCategories
               /\ \A i, j \in DOMAIN b :
                      (i < j /\ projects[b[i]].category
                                   = projects[b[j]].category) =>
                          projects[b[i]].donation_amount
                              >= projects[b[j]].donation_amount

\* three candidates in one category, the user has donated in four
\* categories, and the answer shows two categories
C22_Witness ==
    \E r \in Req, c \in UserCategories("u1") :
        /\ Answered(r, "get_recommendations_for_user")
        /\ req[r].user = "u1"
        /\ Cardinality(UserCategories("u1")) > TopCategories
        /\ Cardinality(NotBacked(c, "u1")) > PerCategory
        /\ Len(req[r].body) = 3
        /\ projects[req[r].body[1]].category = c
        /\ projects[req[r].body[3]].category # c

\* the donors of project p
DonorsOfProject(p) == {donations[i].donor : i \in DonationsOf(p)}

\* C23: get_similar_projects_collaborative(project, limit) returns at most
\* limit projects, each active, different from the source project and
\* funded by at least one donor of the source project, ordered by the
\* number of distinct shared donors descending and then by raised amount
\* descending.
C23_CollaborativeReturns ==
    \A r \in Req :
        (req[r].pc = "done"
            /\ req[r].kind = "get_similar_projects_collaborative") =>
            LET b == req[r].body
                src == DonorsOfProject(req[r].project)
            IN /\ req[r].result = "ok"
               /\ Len(b) <= req[r].args.limit
               /\ \A i \in DOMAIN b :
                      /\ projects[b[i]].status = "active"
                      /\ b[i] # req[r].project
                      /\ DonorsOfProject(b[i]) \cap src # {}
               /\ \A i, j \in DOMAIN b :
                      i < j =>
                          LET ci == Cardinality(DonorsOfProject(b[i]) \cap src)
                              cj == Cardinality(DonorsOfProject(b[j]) \cap src)
                          IN \/ ci > cj
                             \/ ci = cj /\ projects[b[i]].donation_amount
                                              >= projects[b[j]].donation_amount

\* equality of two fractions
RatEq(x, y) == x[1] * y[2] = y[1] * x[2]

\* (funded_percentage / 100) * (funding_velocity / required_daily_funding)
\* for a project o below its target at time t, with
\* funding_velocity = raised / max(days_active, 1) and
\* required_daily_funding = (target - raised) / max(days_left, 1)
ExpectedRatio(o, t) ==
    LET pct == funded_percentage(o)
    IN <<pct[1] * o.donation_amount * Max(days_left(o, t), 1),
         pct[2] * 100 * Max(DaysBetween(o.created_at, t), 1)
             * (o.target_amount - o.donation_amount)>>

\* C24: the success_probability of get_project_analytics lies in [0, 1], is
\* 1.0 whenever the raised amount is at least the target, and otherwise is
\* min((funded_percentage/100) * (funding_velocity / required_daily_funding),
\* 1).
C24_SuccessProbability ==
    \A r \in Req :
        (req[r].pc = "done" /\ req[r].kind = "get_project_analytics") =>
            LET o == projects[req[r].project]
                e == ExpectedRatio(o, now)
            IN /\ req[r].result = "ok"
               /\ LET sp == req[r].body[1].success_probability
                  IN /\ RatLeq(Rat(0, 1), sp) /\ RatLeq(sp, Rat(1, 1))
                     /\ o.donation_amount >= o.target_amount =>
                            sp = Rat(1, 1)
                     /\ o.donation_amount < o.target_amount =>
                            RatEq(sp, IF RatLeq(e, Rat(1, 1)) THEN e
                                      ELSE Rat(1, 1))

\* the platform statistics in the answer of request r
StatsOf(r) == req[r].body[1]

\* C25: the platform success rate equals (number of active projects with
\* raised >= target) / (number of active projects) * 100, lies in [0, 100],
\* and is 0, without a division error, when there are no active projects.
C25_SuccessRate ==
    \A r \in Req :
        (req[r].pc = "done" /\ req[r].kind = "calculate_platform_stats") =>
            LET active == {p \in ProjectIds : projects[p].status = "active"}
                funded == {p \in active : projects[p].donation_amount
                                             >= projects[p].target_amount}
                rate == StatsOf(r).success_rate
            IN /\ req[r].result = "ok"
               /\ rate[2] > 0
               /\ 0 <= rate[1] /\ rate[1] <= 100 * rate[2]
               /\ active = {} => rate[1] = 0
               /\ active # {} =>
                      rate[1] * Cardinality(active)
                          = Cardinality(funded) * 100 * rate[2]

\* one of two active projects has raised exactly its target
C25_Witness ==
    \E r \in Req :
        /\ Answered(r, "calculate_platform_stats")
        /\ \A p \in ProjectIds : projects[p].status = "active"
        /\ projects[1].donation_amount = projects[1].target_amount
        /\ projects[2].donation_amount = 0
        /\ StatsOf(r).success_rate = <<100, 2>>

\* the first tick of the calendar month of t
MonthStart(t) == (t \div MonthTicks) * MonthTicks

\* active projects created in the calendar month that starts at tick m
CreatedInMonth(m) ==
    {p \in ProjectIds :
        /\ projects[p].status = "active"
        /\ projects[p].created_at >= m
        /\ projects[p].created_at < m + MonthTicks}

\* C26: monthly growth is computed from calendar-month counts: a project
\* created at any instant of the current calendar month, also early on the
\* 1st before the current time of day, counts toward the current month and
\* not the previous one; growth = (current - previous) / previous * 100
\* when previous > 0, else 100 if current > 0 and 0 otherwise.
C26_CalendarMonthGrowth ==
    \A r \in Req :
        (req[r].pc = "done" /\ req[r].kind = "calculate_platform_stats") =>
            LET current == Cardinality(CreatedInMonth(MonthStart(now)))
                previous ==
                    Cardinality(CreatedInMonth(MonthStart(now) - MonthTicks))
                g == StatsOf(r).monthly_growth
            IN /\ StatsOf(r).current_month_projects = current
               /\ StatsOf(r).last_month_projects = previous
               /\ previous > 0 =>
                      g[1] * previous = (current - previous) * 100 * g[2]
               /\ previous = 0 =>
                      g = IF current > 0 THEN <<100, 1>> ELSE <<0, 1>>

\* the projects advanced_search returns for the criteria f without a
\* funding-status filter
Unfiltered(f) ==
    UNION {Range(s) :
             s \in advanced_search([f EXCEPT !.funding_status = ""]).seqs}

\* C27: in advanced_search the funding-status filters partition the
\* candidate set: for the same other criteria the result for funded is the
\* part of the unfiltered result with raised >= target, the result for
\* not_funded is the part with raised < target, and the result for
\* nearly_funded is exactly the part of not_funded with raised >= 80% of
\* the target.
C27_FundingStatusPartition ==
    \A r \in Req :
        Answered(r, "advanced_search") =>
            LET f == req[r].args.filters
                got == Range(req[r].body)
                all == Unfiltered(f)
            IN /\ f.funding_status = "funded" =>
                      got = {p \in all : projects[p].donation_amount
                                            >= projects[p].target_amount}
               /\ f.funding_status = "not_funded" =>
                      got = {p \in all : projects[p].donation_amount
                                            < projects[p].target_amount}
               /\ f.funding_status = "nearly_funded" =>
                      got = {p \in all :
                                /\ projects[p].donation_amount
                                       < projects[p].target_amount
                                /\ 10 * projects[p].donation_amount
                                       >= 8 * projects[p].target_amount}

\* C28: search_projects returns an ordered result without raising an error
\* for every sort key and every query, including the sort key relevance
\* with an empty query, for which it returns the base active set (subject
\* to the other filters).
C28_SearchNeverRaises ==
    \A r \in Req :
        (req[r].pc = "done" /\ req[r].kind = "search_projects") =>
            /\ req[r].result = "ok"
            /\ (req[r].args.query = <<>>
                    /\ req[r].args.filters
                           = [NoFilters EXCEPT !.sort = "relevance"]) =>
                   Range(req[r].body) = ActiveProjects

\* C29: rendering a project's detail page changes only that project's view
\* count: views.project_detail adds 1 to the count it read for every
\* viewer, ProjectsViews.project_detail adds 1 for every viewer other than
\* the creator and 0 for the creator; the view's write leaves the raised
\* amount and the donor count written by a concurrent donation in place,
\* and the donation's write leaves the view count in place.
C29_DetailViewCountsOnly ==
    [][\A r \in Req :
          LET p == req'[r].project IN
          /\ (req[r].pc = "view_save" /\ req'[r].pc = "done") =>
                 projects' = [projects EXCEPT ![p].views_count =
                                 req[r].obj.views_count + 1]
          /\ (req[r].pc = "idle"
                 /\ req'[r].kind = "ProjectsViews.project_detail") =>
                 /\ req'[r].result = "ok"
                 /\ projects' = [projects EXCEPT ![p].views_count =
                        IF req'[r].user # projects[p].creator
                        THEN @ + 1 ELSE @]
          /\ DonationStep(r) =>
                 \A q \in ProjectIds :
                     projects'[q].views_count = projects[q].views_count]_vars

\* the stored projects have pairwise distinct slugs after the step
DistinctSlugsNext ==
    \A i, j \in DOMAIN projects' :
        i # j => projects'[i].slug # projects'[j].slug

\* a save of an instance that has a non-empty slug goes on to write
\* without looking for another slug, and a write stores the slug of the
\* instance
SlugsKept ==
    \A r \in Req :
        /\ (req[r].pc = "idle" /\ req'[r].kind = "Projects.save"
                /\ req'[r].obj.id # 0
                /\ projects[req'[r].obj.id].slug # <<>>) =>
               /\ req'[r].pc = "write"
               /\ req'[r].obj.slug = projects[req'[r].obj.id].slug
        /\ (req[r].pc = "write" /\ req'[r].result = "ok"
                /\ req[r].obj.id # 0) =>
               projects'[req[r].obj.id].slug = req[r].obj.slug

\* the step stores a new project
Inserted == Len(projects') = Len(projects) + 1

\* sl followed by '-' and the smallest positive counter not in use
IsNextFree(slug, sl) ==
    \E k \in 1..(MaxProjects + 1) :
        /\ slug = WithCounter(sl, k)
        /\ slug \notin StoredSlugs
        /\ \A j \in 1..(k - 1) : WithCounter(sl, j) \in StoredSlugs

\* C30: after any sequence of project creations the stored projects have
\* pairwise distinct slugs: the first project with a given slugified title
\* gets slugify(title), each later project with the same slugified title
\* gets that slug followed by '-' and the smallest positive counter not
\* already in use, and a project with a non-empty slug keeps it on save.
C30_SlugByTitleOrder ==
    [][/\ DistinctSlugsNext
       /\ SlugsKept
       /\ Inserted =>
              LET new == projects'[Len(projects')]
                  sl == slugify(new.title)
              IN IF \A i \in DOMAIN projects :
                        slugify(projects[i].title) # sl
                 THEN new.slug = sl
                 ELSE IsNextFree(new.slug, sl)]_vars

\* C30, amended: the stored projects have pairwise distinct slugs; a new
\* project with a non-empty slugified title gets slugify(title) when no
\* stored project has that slug, whatever title that project has, and
\* otherwise that slug followed by '-' and the smallest positive counter
\* not in use; a project with a non-empty slug keeps it on save.
C30_SlugByStoredSlugs ==
    [][/\ DistinctSlugsNext
       /\ SlugsKept
       /\ Inserted =>
              LET new == projects'[Len(projects')]
                  sl == slugify(new.title)
              IN sl # <<>> =>
                     IF sl \notin StoredSlugs THEN new.slug = sl
                     ELSE IsNextFree(new.slug, sl)]_vars

\* the first project whose title slugifies to a-1 is stored after two
\* projects whose titles slugify to a
C30_Witness ==
    /\ Len(projects) = 3
    /\ projects[1].slug = <<"a">>
    /\ projects[2].slug = <<"a", "-", "1">>
    /\ slugify(projects[2].title) = <<"a">>
    /\ projects[3].title = <<"a", " ", "1">>
    /\ projects[3].slug = <<"a", "-", "1", "-", "1">>

====
